---- MODULE Spec2Model ----
(***************************************************************************)
(* A model of libnm-util/nm-connection.c: the setting registry, the        *)
(* NMConnection container (a hash table of NMSetting objects keyed by      *)
(* GType name, plus a D-Bus path), and the operations on it.               *)
(*                                                                         *)
(* NMSetting objects live in a heap.  A connection's table holds           *)
(* references; g_object_unref frees the object it is called on (the        *)
(* connection owns the only reference), which leaves any other table       *)
(* entry that points at the same object dangling.  What is read through a  *)
(* dangling pointer is undefined: those reads are a nondeterministic       *)
(* choice over what the freed memory may hold.                             *)
(*                                                                         *)
(* The NMSetting methods (nm-setting.c and the nm-setting-*.c classes) are *)
(* modelled over three abstract properties per setting: an ordinary        *)
(* property "val", a secret "sec", and NMSettingConnection's "type".       *)
(***************************************************************************)
EXTENDS Integers, Sequences, FiniteSets, TLC

VARIABLES
    registered_settings, \* static GHashTable *registered_settings: name -> SettingInfo
    conns,               \* the NMConnection objects that exist
    settings,            \* settings[c][gtype]: priv->settings of connection c
    path,                \* path[c]: priv->path of connection c
    heap,                \* heap[o][gtype]: the NMSetting objects
    ret                  \* the last call: its arguments, return value and call trace

vars == <<registered_settings, conns, settings, path, heap, ret>>

-----------------------------------------------------------------------------
(* Bounds of the model *)

\* the most settings a caller adds to one connection
MaxSettings == 3

-----------------------------------------------------------------------------
(* Values *)

NULL == "<NULL>"
G_TYPE_INVALID == "G_TYPE_INVALID"
G_TYPE_NONE == "G_TYPE_NONE"
\* stands for 2^32 - 1, above every priority a registration can pass; the
\* model checker's integers end at 2^31 - 1
G_MAXUINT32 == 2147483647

NM_TYPE_SETTING_CONNECTION == "NMSettingConnection"
NM_TYPE_SETTING_GSM == "NMSettingGsm"
NM_TYPE_SETTING_802_1X == "NMSetting8021x"
NM_TYPE_SETTING_PPPOE == "NMSettingPPPOE"
NM_TYPE_SETTING_PPP == "NMSettingPPP"
NM_TYPE_SETTING_IP4_CONFIG == "NMSettingIP4Config"
\* an NMSetting subclass that never called _nm_register_setting
NM_TYPE_SETTING_CUSTOM == "NMSettingCustom"

NM_SETTING_CONNECTION_SETTING_NAME == "connection"
NM_SETTING_CONNECTION_PERMISSIONS == "permissions"

GTypes ==
    { NM_TYPE_SETTING_CONNECTION, NM_TYPE_SETTING_GSM, NM_TYPE_SETTING_802_1X,
      NM_TYPE_SETTING_PPPOE, NM_TYPE_SETTING_PPP, NM_TYPE_SETTING_IP4_CONFIG,
      NM_TYPE_SETTING_CUSTOM }

\* the two connection objects the model follows
Connections == {"a", "b"}

NM_CONNECTION_ERROR == "nm-connection-error-quark"
NM_SETTING_ERROR == "nm-setting-error-quark"

NoError == [domain |-> "", code |-> "", message |-> ""]
GError(domain, code, message) == [domain |-> domain, code |-> code, message |-> message]

\* every order in which a GHashTableIter may visit the keys S
Orders(S) ==
    { o \in [1..Cardinality(S) -> S] : \A i, j \in 1..Cardinality(S) : i # j => o[i] # o[j] }

-----------------------------------------------------------------------------
(* The setting registry *)

SettingInfo(type, priority, error_quark) ==
    [type |-> type, priority |-> priority, error_quark |-> error_quark]

\* the greatest priority _nm_register_setting accepts
MaxPriority == 4

\* how a call of _nm_register_setting ends: a g_return_if_fail that fails logs a
\* critical message and returns, a g_assert that fails aborts the program
G_RETURN_IF_FAIL == "g_return_if_fail"
G_ASSERT == "g_assert"
RETURNS == "returns"

_nm_register_setting_outcome_assert_first(reg, name, type, priority, error_quark) ==
    IF name = NULL \/ type = G_TYPE_INVALID \/ type = G_TYPE_NONE
       \/ error_quark = "" \/ priority > MaxPriority
    THEN G_RETURN_IF_FAIL
    ELSE IF priority = 0 /\ name # NM_SETTING_CONNECTION_SETTING_NAME
    THEN G_ASSERT
    ELSE RETURNS

\* _nm_register_setting: how the call ends
_nm_register_setting_outcome(reg, name, type, priority, error_quark) ==
    IF name = NULL \/ type = G_TYPE_INVALID \/ type = G_TYPE_NONE
       \/ error_quark = "" \/ priority > MaxPriority
    THEN G_RETURN_IF_FAIL
    ELSE IF name \in DOMAIN reg
    THEN RETURNS
    ELSE IF priority = 0 /\ name # NM_SETTING_CONNECTION_SETTING_NAME
    THEN G_ASSERT
    ELSE RETURNS

_nm_register_setting_last_wins(reg, name, type, priority, error_quark) ==
    IF name = NULL \/ type = G_TYPE_INVALID \/ type = G_TYPE_NONE
       \/ error_quark = "" \/ priority > MaxPriority
    THEN reg
    ELSE IF priority = 0 /\ name # NM_SETTING_CONNECTION_SETTING_NAME
    THEN reg
    ELSE [n \in DOMAIN reg \cup {name} |->
            IF n = name THEN SettingInfo(type, priority, error_quark) ELSE reg[n]]

\* _nm_register_setting: the registry after the call
_nm_register_setting(reg, name, type, priority, error_quark) ==
    IF name = NULL \/ type = G_TYPE_INVALID \/ type = G_TYPE_NONE
       \/ error_quark = "" \/ priority > MaxPriority
    THEN reg
    ELSE IF name \in DOMAIN reg
    THEN reg
    ELSE IF priority = 0 /\ name # NM_SETTING_CONNECTION_SETTING_NAME
    THEN reg
    ELSE [n \in DOMAIN reg \cup {name} |->
            IF n = name THEN SettingInfo(type, priority, error_quark) ELSE reg[n]]

\* the registrations the setting classes make when their types are first used
StartupRegistrations ==
    << <<"connection", NM_TYPE_SETTING_CONNECTION, 0, "nm-setting-connection-error-quark">>,
       <<"gsm", NM_TYPE_SETTING_GSM, 1, "nm-setting-gsm-error-quark">>,
       <<"802-1x", NM_TYPE_SETTING_802_1X, 2, "nm-setting-802-1x-error-quark">>,
       <<"pppoe", NM_TYPE_SETTING_PPPOE, 3, "nm-setting-pppoe-error-quark">>,
       <<"ppp", NM_TYPE_SETTING_PPP, 3, "nm-setting-ppp-error-quark">>,
       <<"ipv4", NM_TYPE_SETTING_IP4_CONFIG, 4, "nm-setting-ip4-config-error-quark">> >>

RECURSIVE RegisterAll(_, _)
RegisterAll(reg, regs) ==
    IF regs = << >> THEN reg
    ELSE LET r == Head(regs)
         IN RegisterAll(_nm_register_setting(reg, r[1], r[2], r[3], r[4]), Tail(regs))

\* _ensure_registered creates the empty table; the classes then register
StartupRegistry == RegisterAll([n \in {} |-> SettingInfo(G_TYPE_INVALID, 0, "")], StartupRegistrations)

_get_setting_priority_unknown_first(setting) ==
    LET hits == { n \in DOMAIN registered_settings :
                    registered_settings[n].type = setting.gtype }
    IN IF hits = {} THEN 0
       ELSE registered_settings[CHOOSE n \in hits : TRUE].priority

\* _get_setting_priority: scan of the registry for the object's GType
_get_setting_priority(setting) ==
    LET hits == { n \in DOMAIN registered_settings :
                    registered_settings[n].type = setting.gtype }
    IN IF hits = {} THEN G_MAXUINT32
       ELSE registered_settings[CHOOSE n \in hits : TRUE].priority

NM_IS_SETTING_PPPOE(setting) == setting.gtype = NM_TYPE_SETTING_PPPOE

_is_setting_base_type_no_pppoe(setting) ==
    _get_setting_priority(setting) = 1

_is_setting_base_type_any_prio3(setting) ==
    _get_setting_priority(setting) \in {1, 3}

_is_setting_base_type(setting) ==
    _get_setting_priority(setting) = 1 \/ NM_IS_SETTING_PPPOE(setting)

nm_connection_lookup_setting_type(name) ==
    IF name \in DOMAIN registered_settings
    THEN registered_settings[name].type
    ELSE G_TYPE_INVALID

-----------------------------------------------------------------------------
(* NMSetting objects and the NMSetting methods the connection calls *)

\* a pointer to an NMSetting as the connection sees it: null, or the object
\* it points at (live is FALSE once the object has been freed)
NullSetting ==
    [null |-> TRUE, live |-> FALSE, gtype |-> G_TYPE_INVALID, val |-> 0, sec |-> 0, ctype |-> NULL]

NewSetting(gtype, val, sec, ctype) ==
    [null |-> FALSE, live |-> TRUE, gtype |-> gtype, val |-> val, sec |-> sec, ctype |-> ctype]

\* the memory of a freed object of the given type
FreeCell(gtype) ==
    [null |-> FALSE, live |-> FALSE, gtype |-> gtype, val |-> 0, sec |-> 0, ctype |-> NULL]

\* the value of "val" that the setting's verify rejects
InvalidVal == 2

\* a setting pointer a caller holds: ref is the heap address of the object, or
\* FLOATING for an object no connection owns yet (obj is then its content)
FLOATING == "<floating>"
Floating(obj) == [ref |-> FLOATING, from |-> NULL, obj |-> obj]
NoPointer == [ref |-> NULL, from |-> NULL, obj |-> NullSetting]

\* nm_setting_get_name
nm_setting_get_name(setting) ==
    CASE setting.gtype = NM_TYPE_SETTING_CONNECTION -> "connection"
      [] setting.gtype = NM_TYPE_SETTING_GSM -> "gsm"
      [] setting.gtype = NM_TYPE_SETTING_802_1X -> "802-1x"
      [] setting.gtype = NM_TYPE_SETTING_PPPOE -> "pppoe"
      [] setting.gtype = NM_TYPE_SETTING_PPP -> "ppp"
      [] setting.gtype = NM_TYPE_SETTING_IP4_CONFIG -> "ipv4"
      [] OTHER -> "custom"

\* the error domain of a setting class
SettingErrorQuark(setting) ==
    CASE setting.gtype = NM_TYPE_SETTING_CONNECTION -> "nm-setting-connection-error-quark"
      [] setting.gtype = NM_TYPE_SETTING_GSM -> "nm-setting-gsm-error-quark"
      [] setting.gtype = NM_TYPE_SETTING_802_1X -> "nm-setting-802-1x-error-quark"
      [] setting.gtype = NM_TYPE_SETTING_PPPOE -> "nm-setting-pppoe-error-quark"
      [] setting.gtype = NM_TYPE_SETTING_PPP -> "nm-setting-ppp-error-quark"
      [] setting.gtype = NM_TYPE_SETTING_IP4_CONFIG -> "nm-setting-ip4-config-error-quark"
      [] OTHER -> "nm-setting-custom-error-quark"

\* nm_setting_verify (setting, all_settings, error): TRUE when the setting is valid
nm_setting_verify(setting, all_settings) ==
    setting.val # InvalidVal

\* the GError nm_setting_verify sets when it fails
nm_setting_verify_error(setting) ==
    GError(SettingErrorQuark(setting), "INVALID_PROPERTY", "val")

\* nm_setting_connection_get_connection_type
nm_setting_connection_get_connection_type(s_con) == s_con.ctype

-----------------------------------------------------------------------------
(* A connection's settings, as the code reads them *)

\* priv->settings of connection c with every pointer followed: GType -> object
Table(c) ==
    [t \in GTypes |-> IF settings[c][t] = NULL THEN NullSetting ELSE heap[settings[c][t]][t]]

\* the keys of a settings table
Held(S) == { t \in GTypes : ~S[t].null }

\* nm_connection_get_setting
nm_connection_get_setting(S, setting_type) ==
    IF setting_type \in GTypes THEN S[setting_type] ELSE NullSetting

\* nm_connection_get_setting_by_name
nm_connection_get_setting_by_name(S, name) ==
    LET type == nm_connection_lookup_setting_type(name)
    IN IF type # G_TYPE_INVALID THEN nm_connection_get_setting(S, type) ELSE NullSetting

\* nm_connection_get_setting_connection
nm_connection_get_setting_connection(S) ==
    nm_connection_get_setting(S, NM_TYPE_SETTING_CONNECTION)

-----------------------------------------------------------------------------
(* nm_connection_verify *)

RECURSIVE VerifySettings_every_setting(_, _, _, _)
VerifySettings_every_setting(S, order, i, called) ==
    IF i > Len(order)
    THEN [success |-> TRUE, error |-> NoError, verified |-> called]
    ELSE LET value == S[order[i]]
             rest == VerifySettings_every_setting(S, order, i + 1, Append(called, order[i]))
         IN IF nm_setting_verify(value, Held(S)) \/ ~rest.success
            THEN rest
            ELSE [success |-> FALSE, error |-> nm_setting_verify_error(value),
                  verified |-> rest.verified]

\* the second loop of nm_connection_verify from position i on: the setting
\* verifies called, and the first failure among them
RECURSIVE VerifySettings(_, _, _, _)
VerifySettings(S, order, i, called) ==
    IF i > Len(order)
    THEN [success |-> TRUE, error |-> NoError, verified |-> called]
    ELSE LET value == S[order[i]]
         IN IF nm_setting_verify(value, Held(S))
            THEN VerifySettings(S, order, i + 1, Append(called, order[i]))
            ELSE [success |-> FALSE, error |-> nm_setting_verify_error(value),
                  verified |-> Append(called, order[i])]

nm_connection_verify_settings_first(S, order) ==
    LET s_con == nm_connection_get_setting_connection(S)
        each == VerifySettings(S, order, 1, << >>)
    IN IF ~each.success
       THEN each
       ELSE IF s_con.null
       THEN [success |-> FALSE, verified |-> each.verified,
             error |-> GError(NM_CONNECTION_ERROR, "CONNECTION_SETTING_NOT_FOUND",
                              "connection setting not found")]
       ELSE [success |-> TRUE, verified |-> each.verified, error |-> NoError]

\* nm_connection_verify; order is the order in which the hash table iterates
nm_connection_verify(S, order) ==
    LET s_con == nm_connection_get_setting_connection(S)
        each == VerifySettings(S, order, 1, << >>)
        ctype == nm_setting_connection_get_connection_type(s_con)
        base == nm_connection_get_setting_by_name(S, ctype)
    IN IF s_con.null
       THEN [success |-> FALSE, verified |-> << >>,
             error |-> GError(NM_CONNECTION_ERROR, "CONNECTION_SETTING_NOT_FOUND",
                              "connection setting not found")]
       ELSE IF ~each.success
       THEN each
       ELSE IF ctype = NULL
       THEN [success |-> FALSE, verified |-> each.verified,
             error |-> GError(NM_CONNECTION_ERROR, "CONNECTION_TYPE_INVALID",
                              "connection type missing")]
       ELSE IF base.null
       THEN [success |-> FALSE, verified |-> each.verified,
             error |-> GError(NM_CONNECTION_ERROR, "CONNECTION_TYPE_INVALID",
                              "base setting GType not found")]
       ELSE IF ~_is_setting_base_type(base)
       THEN [success |-> FALSE, verified |-> each.verified,
             error |-> GError(NM_CONNECTION_ERROR, "CONNECTION_TYPE_INVALID",
                              "connection type is not a base type")]
       ELSE [success |-> TRUE, verified |-> each.verified, error |-> NoError]

-----------------------------------------------------------------------------
(* The heap and the container operations *)

\* the memory the operations act on
Mem == [settings |-> settings, heap |-> heap]

\* a settings table of memory M with every pointer followed
TableOf(M, c) ==
    [t \in GTypes |->
        IF M.settings[c][t] = NULL THEN NullSetting ELSE M.heap[M.settings[c][t]][t]]

\* g_object_unref on the only reference: the object is freed; its memory
\* keeps what it held until it is reused
Unref(hp, ref, t) == [hp EXCEPT ![ref][t].live = FALSE]

\* freed memory that no table points at any more plays no part
Sweep(M) ==
    [settings |-> M.settings,
     heap |-> [o \in Connections |-> [t \in GTypes |->
                 IF ~M.heap[o][t].live /\ \A c \in Connections : M.settings[c][t] # o
                 THEN FreeCell(t) ELSE M.heap[o][t]]]]

\* the table entries of memory M that point at freed objects
Dangling(M) ==
    { <<c, t>> \in Connections \X GTypes :
        M.settings[c][t] # NULL /\ ~M.heap[M.settings[c][t]][t].live }

\* the choices there are to make in memory M
GarbageIn(M) == IF Dangling(M) = {} THEN {"intact"} ELSE {"intact", "zeroed", "invalid"}

Scribble(M, garbage) ==
    [settings |-> M.settings,
     heap |-> [o \in Connections |-> [t \in GTypes |->
                 LET cell == M.heap[o][t]
                 IN IF cell.live \/ garbage = "intact" THEN cell
                    ELSE IF garbage = "zeroed" THEN FreeCell(t)
                    ELSE [cell EXCEPT !.val = InvalidVal]]]]

\* nm_connection_add_setting: g_hash_table_insert unrefs the value it replaces.
\* A floating object is stored at the connection's own address for its type.
nm_connection_add_setting(M, c, setting) ==
    LET t == setting.obj.gtype
        old == M.settings[c][t]
        hp1 == IF old # NULL THEN Unref(M.heap, old, t) ELSE M.heap
        ref == IF setting.ref = FLOATING THEN c ELSE setting.ref
        hp2 == IF setting.ref = FLOATING THEN [hp1 EXCEPT ![c][t] = setting.obj] ELSE hp1
    IN [settings |-> [M.settings EXCEPT ![c][t] = ref], heap |-> hp2]

nm_connection_remove_setting_keep(M, c, setting_type) == M

\* nm_connection_remove_setting: g_hash_table_remove unrefs the value
nm_connection_remove_setting(M, c, setting_type) ==
    LET old == M.settings[c][setting_type]
    IN IF old = NULL THEN M
       ELSE [settings |-> [M.settings EXCEPT ![c][setting_type] = NULL],
             heap |-> Unref(M.heap, old, setting_type)]

-----------------------------------------------------------------------------
(* Hash tables of hash tables: the serialized form *)

\* a GHashTable pointer: NULL, or a table
NullHash == [null |-> TRUE, tbl |-> [k \in {} |-> 0]]
HashOf(tbl) == [null |-> FALSE, tbl |-> tbl]

NM_SETTING_HASH_FLAG_ALL == "NM_SETTING_HASH_FLAG_ALL"
NM_SETTING_HASH_FLAG_NO_SECRETS == "NM_SETTING_HASH_FLAG_NO_SECRETS"
NM_SETTING_HASH_FLAG_ONLY_SECRETS == "NM_SETTING_HASH_FLAG_ONLY_SECRETS"
\* the GValue types a "permissions" entry may hold
G_TYPE_STRV == "G_TYPE_STRV"
DBUS_TYPE_G_LIST_OF_STRING == "DBUS_TYPE_G_LIST_OF_STRING"
G_TYPE_UINT == "G_TYPE_UINT"

\* nm_setting_to_hash: the properties that differ from their defaults and that
\* the flags select; NULL when there is none
nm_setting_to_hash(setting, flags) ==
    LET keys == { k \in {"val", "sec", "type"} :
                    \/ k = "val" /\ setting.val # 0 /\ flags # NM_SETTING_HASH_FLAG_ONLY_SECRETS
                    \/ k = "sec" /\ setting.sec # 0 /\ flags # NM_SETTING_HASH_FLAG_NO_SECRETS
                    \/ k = "type" /\ setting.ctype # NULL
                         /\ flags # NM_SETTING_HASH_FLAG_ONLY_SECRETS }
    IN IF keys = {} THEN NullHash
       ELSE HashOf([k \in keys |->
                      IF k = "val" THEN setting.val
                      ELSE IF k = "sec" THEN setting.sec
                      ELSE setting.ctype])

\* nm_setting_new_from_hash: a new object of the type, every property at its
\* default except those the hash gives
nm_setting_new_from_hash(type, setting_hash) ==
    NewSetting(type,
               IF "val" \in DOMAIN setting_hash THEN setting_hash["val"] ELSE 0,
               IF "sec" \in DOMAIN setting_hash THEN setting_hash["sec"] ELSE 0,
               IF type = NM_TYPE_SETTING_CONNECTION /\ "type" \in DOMAIN setting_hash
               THEN setting_hash["type"] ELSE NULL)

nm_connection_to_hash_no_secrets(S, flags) ==
    LET kept == { t \in Held(S) :
                    ~nm_setting_to_hash(S[t], NM_SETTING_HASH_FLAG_NO_SECRETS).null }
        names == { nm_setting_get_name(S[t]) : t \in kept }
        tbl == [n \in names |->
                  nm_setting_to_hash(S[CHOOSE t \in kept : nm_setting_get_name(S[t]) = n],
                                     NM_SETTING_HASH_FLAG_NO_SECRETS).tbl]
    IN IF Cardinality(names) < 1 THEN NullHash ELSE HashOf(tbl)

nm_connection_to_hash_empty_container(S, flags) ==
    LET kept == { t \in Held(S) : ~nm_setting_to_hash(S[t], flags).null }
        names == { nm_setting_get_name(S[t]) : t \in kept }
    IN HashOf([n \in names |->
                 nm_setting_to_hash(S[CHOOSE t \in kept : nm_setting_get_name(S[t]) = n],
                                    flags).tbl])

\* nm_connection_to_hash
nm_connection_to_hash(S, flags) ==
    LET kept == { t \in Held(S) : ~nm_setting_to_hash(S[t], flags).null }
        names == { nm_setting_get_name(S[t]) : t \in kept }
        tbl == [n \in names |->
                  nm_setting_to_hash(S[CHOOSE t \in kept : nm_setting_get_name(S[t]) = n],
                                     flags).tbl]
    IN IF Cardinality(names) < 1 THEN NullHash ELSE HashOf(tbl)

validate_permissions_type_accept_all(hash) ==
    [ok |-> TRUE, error |-> NoError]

\* validate_permissions_type
validate_permissions_type(hash) ==
    IF /\ NM_SETTING_CONNECTION_SETTING_NAME \in DOMAIN hash
       /\ NM_SETTING_CONNECTION_PERMISSIONS \in DOMAIN hash[NM_SETTING_CONNECTION_SETTING_NAME]
       /\ hash[NM_SETTING_CONNECTION_SETTING_NAME][NM_SETTING_CONNECTION_PERMISSIONS]
            \notin {G_TYPE_STRV, DBUS_TYPE_G_LIST_OF_STRING}
    THEN [ok |-> FALSE,
          error |-> GError(NM_SETTING_ERROR, "PROPERTY_TYPE_MISMATCH",
                           "Wrong permissions property type; should be a list of strings.")]
    ELSE [ok |-> TRUE, error |-> NoError]

\* g_hash_table_remove_all (priv->settings): every value is unreffed
RemoveAll(M, c) ==
    [settings |-> [M.settings EXCEPT ![c] = [t \in GTypes |-> NULL]],
     heap |-> [o \in Connections |-> [t \in GTypes |->
                 IF M.settings[c][t] = o THEN [M.heap[o][t] EXCEPT !.live = FALSE]
                 ELSE M.heap[o][t]]]]

\* the loop of hash_to_connection from entry i of the iteration on.  st.setting
\* is the local variable "setting"; st.trace records, per entry visited, whether
\* a setting was constructed and which instance (named by the entry that
\* constructed it) was passed to nm_connection_add_setting.
RECURSIVE HashLoop(_, _, _, _, _)
HashLoop(c, new, order, i, st) ==
    IF i > Len(order) THEN st
    ELSE LET setting_name == order[i]
             setting_hash == new[setting_name]
             type == nm_connection_lookup_setting_type(setting_name)
             setting == IF type # G_TYPE_INVALID
                        THEN [ref |-> FLOATING, from |-> setting_name,
                              obj |-> nm_setting_new_from_hash(type, setting_hash)]
                        ELSE st.setting
             mem == IF setting.ref # NULL
                    THEN nm_connection_add_setting(st.mem, c, setting)
                    ELSE st.mem
         IN HashLoop(c, new, order, i + 1,
                     [mem |-> mem,
                      setting |-> IF setting.ref # NULL THEN [setting EXCEPT !.ref = c]
                                  ELSE setting,
                      trace |-> Append(st.trace,
                                  [entry |-> setting_name,
                                   created |-> type # G_TYPE_INVALID,
                                   added |-> IF setting.ref # NULL THEN setting.from
                                             ELSE NULL])])

\* hash_to_connection up to the call of nm_connection_verify
hash_to_connection(M, c, new, order) ==
    HashLoop(c, new, order, 1,
             [mem |-> RemoveAll(M, c),
              setting |-> NoPointer,
              trace |-> << >>])

-----------------------------------------------------------------------------
(* Actions *)

\* nm_connection_init: a new connection has an empty table and no path
Init ==
    /\ registered_settings = StartupRegistry
    /\ conns = {"a"}
    /\ settings = [c \in Connections |-> [t \in GTypes |-> NULL]]
    /\ path = [c \in Connections |-> NULL]
    /\ heap = [o \in Connections |-> [t \in GTypes |-> FreeCell(t)]]
    /\ ret = [op |-> "nm_connection_new", c |-> "a"]

\* a caller creates the setting obj and calls nm_connection_add_setting (c, obj)
AddSetting(c, obj) ==
    /\ c \in conns
    /\ Cardinality(Held(Table(c)) \cup {obj.gtype}) <= MaxSettings
    /\ LET M == Sweep(nm_connection_add_setting(Mem, c, Floating(obj)))
       IN /\ settings' = M.settings
          /\ heap' = M.heap
    /\ ret' = [op |-> "nm_connection_add_setting", c |-> c, setting |-> obj]
    /\ UNCHANGED <<registered_settings, conns, path>>

\* nm_connection_remove_setting (c, setting_type)
RemoveSetting(c, setting_type) ==
    /\ c \in conns
    /\ LET M == Sweep(nm_connection_remove_setting(Mem, c, setting_type))
       IN /\ settings' = M.settings
          /\ heap' = M.heap
    /\ ret' = [op |-> "nm_connection_remove_setting", c |-> c, setting_type |-> setting_type]
    /\ UNCHANGED <<registered_settings, conns, path>>

\* nm_connection_verify (c, &error)
Verify(c) ==
    /\ c \in conns
    /\ \E order \in Orders(Held(Table(c))) :
         LET r == nm_connection_verify(Table(c), order)
         IN ret' = [op |-> "nm_connection_verify", c |-> c, success |-> r.success,
                    error |-> r.error, verified |-> r.verified]
    /\ UNCHANGED <<registered_settings, conns, settings, path, heap>>

\* nm_connection_replace_settings (c, new, &error)
ReplaceSettings(c, new) ==
    /\ c \in conns
    /\ LET valid == validate_permissions_type(new)
       IN IF ~valid.ok
          THEN /\ ret' = [op |-> "nm_connection_replace_settings", c |-> c, hash |-> new,
                          success |-> FALSE, error |-> valid.error,
                          trace |-> << >>, verified |-> << >>]
               /\ UNCHANGED <<settings, heap>>
          ELSE \E order \in Orders(DOMAIN new) :
               \E garbage \in GarbageIn(hash_to_connection(Mem, c, new, order).mem) :
                 LET st == hash_to_connection(Mem, c, new, order)
                     M == Scribble(Sweep(st.mem), garbage)
                 IN \E vorder \in Orders(Held(TableOf(M, c))) :
                      LET r == nm_connection_verify(TableOf(M, c), vorder)
                      IN /\ settings' = M.settings
                         /\ heap' = M.heap
                         /\ ret' = [op |-> "nm_connection_replace_settings", c |-> c,
                                    hash |-> new, success |-> r.success, error |-> r.error,
                                    trace |-> st.trace, verified |-> r.verified]
    /\ UNCHANGED <<registered_settings, conns, path>>

\* finalize: the table is destroyed with its settings, the path is freed
finalize(M, c) == Sweep(RemoveAll(M, c))

\* nm_connection_new_from_hash (new, &error); the new connection is "b"
NewFromHash(new) ==
    /\ "b" \notin conns
    /\ LET valid == validate_permissions_type(new)
       IN IF ~valid.ok
          THEN /\ ret' = [op |-> "nm_connection_new_from_hash", hash |-> new,
                          connection |-> NULL, error |-> valid.error,
                          trace |-> << >>, verified |-> << >>]
               /\ UNCHANGED <<settings, heap, conns>>
          ELSE \E order \in Orders(DOMAIN new) :
               \E garbage \in GarbageIn(hash_to_connection(Mem, "b", new, order).mem) :
                 LET st == hash_to_connection(Mem, "b", new, order)
                     M == Scribble(Sweep(st.mem), garbage)
                 IN \E vorder \in Orders(Held(TableOf(M, "b"))) :
                      LET r == nm_connection_verify(TableOf(M, "b"), vorder)
                          F == IF r.success THEN M ELSE finalize(M, "b")
                      IN /\ settings' = F.settings
                         /\ heap' = F.heap
                         /\ conns' = IF r.success THEN conns \cup {"b"} ELSE conns
                         /\ ret' = [op |-> "nm_connection_new_from_hash", hash |-> new,
                                    connection |-> IF r.success THEN "b" ELSE NULL,
                                    error |-> r.error,
                                    trace |-> st.trace, verified |-> r.verified]
    /\ UNCHANGED <<registered_settings, path>>

\* nm_connection_to_hash (c, flags)
ToHash(c, flags) ==
    /\ c \in conns
    /\ ret' = [op |-> "nm_connection_to_hash", c |-> c, flags |-> flags,
               result |-> nm_connection_to_hash(Table(c), flags)]
    /\ UNCHANGED <<registered_settings, conns, settings, path, heap>>

\* nm_connection_set_path (c, p)
SetPath(c, p) ==
    /\ c \in conns
    /\ path' = [path EXCEPT ![c] = p]
    /\ ret' = [op |-> "nm_connection_set_path", c |-> c]
    /\ UNCHANGED <<registered_settings, conns, settings, heap>>

\* the caller drops its reference to connection c: g_object_unref, finalize
Finalize(c) ==
    /\ c \in conns
    /\ LET M == finalize(Mem, c)
       IN /\ settings' = M.settings
          /\ heap' = M.heap
    /\ path' = [path EXCEPT ![c] = NULL]
    /\ conns' = conns \ {c}
    /\ ret' = [op |-> "g_object_unref", c |-> c]
    /\ UNCHANGED registered_settings

-----------------------------------------------------------------------------
(* Verification of one connection: settings of every kind, valid and       *)
(* invalid, and every value of the connection setting's type               *)

VerifyInputs ==
    { NewSetting(NM_TYPE_SETTING_CONNECTION, 1, 0, ct) :
        ct \in { NULL, "", "gsm", "802-1x", "pppoe", "ppp", "ipv4", "connection", "custom" } }
    \cup { NewSetting(NM_TYPE_SETTING_CONNECTION, InvalidVal, 0, "gsm") }
    \cup { NewSetting(t, v, 0, NULL) :
             t \in GTypes \ {NM_TYPE_SETTING_CONNECTION}, v \in {1, InvalidVal} }

NextVerify ==
    \/ \E obj \in VerifyInputs : AddSetting("a", obj)
    \/ \E t \in GTypes : RemoveSetting("a", t)
    \/ Verify("a")

SpecVerify == Init /\ [][NextVerify]_vars

\* C1: nm_connection_verify succeeds if and only if the connection holds the
\* connection setting, every held setting passes its own verify, the connection
\* setting's type is set, the type is a registered name whose GType is held, and
\* that name is registered with priority 1 or is the PPPoE kind.
C1_VerifyIff ==
    ret.op = "nm_connection_verify" =>
        LET S == Table(ret.c)
            s_con == S[NM_TYPE_SETTING_CONNECTION]
        IN ret.success <=>
             /\ NM_TYPE_SETTING_CONNECTION \in Held(S)
             /\ \A t \in Held(S) : nm_setting_verify(S[t], Held(S))
             /\ s_con.ctype # NULL
             /\ s_con.ctype \in DOMAIN registered_settings
             /\ registered_settings[s_con.ctype].type \in Held(S)
             /\ \/ registered_settings[s_con.ctype].priority = 1
                \/ registered_settings[s_con.ctype].type = NM_TYPE_SETTING_PPPOE

\* verify succeeded on a connection whose type is the PPPoE kind
C1_Witness ==
    /\ ret.op = "nm_connection_verify"
    /\ ret.success
    /\ Table(ret.c)[NM_TYPE_SETTING_CONNECTION].ctype = "pppoe"
    /\ Cardinality(Held(Table(ret.c))) = 3

\* C2: on a connection without the connection setting, nm_connection_verify fails
\* with NM_CONNECTION_ERROR_CONNECTION_SETTING_NOT_FOUND whatever else it holds,
\* and calls no setting's verify.
C2_NoConnectionSetting ==
    (ret.op = "nm_connection_verify" /\ Table(ret.c)[NM_TYPE_SETTING_CONNECTION].null) =>
        /\ ~ret.success
        /\ ret.error.domain = NM_CONNECTION_ERROR
        /\ ret.error.code = "CONNECTION_SETTING_NOT_FOUND"
        /\ ret.verified = << >>

\* verify was called on a connection without the connection setting that holds
\* a setting its own verify rejects
C2_Witness ==
    /\ ret.op = "nm_connection_verify"
    /\ Table(ret.c)[NM_TYPE_SETTING_CONNECTION].null
    /\ \E t \in Held(Table(ret.c)) : ~nm_setting_verify(Table(ret.c)[t], Held(Table(ret.c)))

\* C21: verify stops at the first failure: when the connection setting is held
\* and a setting's own verify fails, nm_connection_verify fails with the error
\* of the first setting in iteration order whose verify fails, whatever the
\* connection type is, and calls the verify of no setting after that one.
C21_VerifyStopsAtFirstFailure ==
    LET S == Table(ret.c)
    IN ( /\ ret.op = "nm_connection_verify"
         /\ NM_TYPE_SETTING_CONNECTION \in Held(S)
         /\ \E t \in Held(S) : ~nm_setting_verify(S[t], Held(S)) ) =>
           /\ ~ret.success
           /\ Len(ret.verified) >= 1
           /\ \A i, j \in 1..Len(ret.verified) : ret.verified[i] = ret.verified[j] => i = j
           /\ \A i \in 1..(Len(ret.verified) - 1) :
                 nm_setting_verify(S[ret.verified[i]], Held(S))
           /\ ~nm_setting_verify(S[ret.verified[Len(ret.verified)]], Held(S))
           /\ ret.error = nm_setting_verify_error(S[ret.verified[Len(ret.verified)]])

\* verify was called on a connection without a connection type that holds two
\* settings whose verify fails; it called one verify that passed, then the
\* verify of one of the two
C21_Witness ==
    /\ ret.op = "nm_connection_verify"
    /\ Table(ret.c)[NM_TYPE_SETTING_CONNECTION].ctype = NULL
    /\ Cardinality({ t \in Held(Table(ret.c)) :
                       ~nm_setting_verify(Table(ret.c)[t], Held(Table(ret.c))) }) = 2
    /\ Len(ret.verified) = 2

\* C22: when the connection setting is held and every setting passes its own
\* verify, a failure of nm_connection_verify is
\* NM_CONNECTION_ERROR_CONNECTION_TYPE_INVALID with the message of the first
\* violated step: "connection type missing" when the type is NULL or empty,
\* "base setting GType not found" when it names no registered type or a type
\* that is not held, "connection type is not a base type" otherwise.
C22_TypeErrorMessage ==
    LET S == Table(ret.c)
        ctype == S[NM_TYPE_SETTING_CONNECTION].ctype
    IN ( /\ ret.op = "nm_connection_verify"
         /\ NM_TYPE_SETTING_CONNECTION \in Held(S)
         /\ \A t \in Held(S) : nm_setting_verify(S[t], Held(S))
         /\ ~ret.success ) =>
           /\ ret.error.domain = NM_CONNECTION_ERROR
           /\ ret.error.code = "CONNECTION_TYPE_INVALID"
           /\ ret.error.message =
                IF ctype \in {NULL, ""}
                THEN "connection type missing"
                ELSE IF \/ ctype \notin DOMAIN registered_settings
                        \/ registered_settings[ctype].type \notin Held(S)
                THEN "base setting GType not found"
                ELSE "connection type is not a base type"

\* verify failed on a connection whose settings all pass their own verify and
\* whose connection type is the empty string
C22_Witness ==
    /\ ret.op = "nm_connection_verify"
    /\ ~ret.success
    /\ Table(ret.c)[NM_TYPE_SETTING_CONNECTION].ctype = ""
    /\ \A t \in Held(Table(ret.c)) : nm_setting_verify(Table(ret.c)[t], Held(Table(ret.c)))
    /\ ret.error.message = "base setting GType not found"

-----------------------------------------------------------------------------
(* Hashes received from a caller.  "custom" is a name the registry does    *)
(* not know.                                                               *)

\* the hashes that map each of the names to one of the property hashes given
\* for it
HashesOver(inner) ==
    UNION { { m \in [ns -> UNION { inner[n] : n \in ns }] : \A n \in ns : m[n] \in inner[n] } :
              ns \in SUBSET DOMAIN inner }

ConnectionHash(permissions) ==
    IF permissions = NULL THEN [k \in {"type"} |-> "gsm"]
    ELSE [k \in {"type", "permissions"} |-> IF k = "type" THEN "gsm" ELSE permissions]

-----------------------------------------------------------------------------
(* Replacing the settings of one connection                                *)

ReplaceSettingInputs ==
    { NewSetting(NM_TYPE_SETTING_CONNECTION, 0, 0, ct) : ct \in {NULL, "gsm"} }
    \cup { NewSetting(NM_TYPE_SETTING_GSM, 1, x, NULL) : x \in {0, 1} }
    \cup { NewSetting(NM_TYPE_SETTING_PPP, 1, 0, NULL),
           NewSetting(NM_TYPE_SETTING_CUSTOM, 1, 0, NULL) }

ReplaceInputs == HashesOver([n \in {"connection", "gsm", "custom"} |->
            IF n = "connection"
            THEN { [k \in {} |-> 0], ConnectionHash(NULL), ConnectionHash(G_TYPE_STRV) }
            ELSE IF n = "gsm"
            THEN { [k \in {} |-> 0], [k \in {"val", "sec"} |-> 1] }
            ELSE { [k \in {"val"} |-> 1] }])

NextReplace ==
    \/ \E obj \in ReplaceSettingInputs : AddSetting("a", obj)
    \/ \E new \in ReplaceInputs : ReplaceSettings("a", new)

SpecReplace == Init /\ [][NextReplace]_vars

\* the settings that nm_setting_new_from_hash makes of the entries of a hash
\* whose names the registry knows
Built(new) ==
    [t \in GTypes |->
        LET ns == { n \in DOMAIN new : nm_connection_lookup_setting_type(n) = t }
        IN IF ns = {} THEN NullSetting
           ELSE nm_setting_new_from_hash(t, new[CHOOSE n \in ns : TRUE])]

\* the value of a "permissions" entry is a list of strings
IsStringList(type) == type \in {G_TYPE_STRV, DBUS_TYPE_G_LIST_OF_STRING}

\* the hash has a connection entry whose permissions value is no list of strings
WrongPermissions(new) ==
    /\ "connection" \in DOMAIN new
    /\ "permissions" \in DOMAIN new["connection"]
    /\ ~IsStringList(new["connection"]["permissions"])

\* C3: once nm_connection_replace_settings has passed the permissions check, the
\* connection holds exactly the settings built from the new hash, whether verify
\* then succeeds or fails, and the call returns what verify returns on them.
C3_ReplaceLeavesNewSet ==
    (ret.op = "nm_connection_replace_settings" /\ ~WrongPermissions(ret.hash)) =>
        /\ Table(ret.c) = Built(ret.hash)
        /\ \A order \in Orders(Held(Built(ret.hash))) :
             ret.success = nm_connection_verify(Built(ret.hash), order).success

\* a replace whose verify failed left settings in the connection
C3_Witness ==
    /\ ret.op = "nm_connection_replace_settings"
    /\ ~WrongPermissions(ret.hash)
    /\ ~ret.success
    /\ Held(Table(ret.c)) # {}

\* C5: in hash_to_connection an entry whose name the registry does not know
\* constructs no setting and adds none, every setting constructed is added when
\* its entry is visited, and no setting instance is added twice.
C5_UnknownSkipped ==
    ret.op \in {"nm_connection_replace_settings", "nm_connection_new_from_hash"} =>
        /\ \A i \in DOMAIN ret.trace :
             IF nm_connection_lookup_setting_type(ret.trace[i].entry) = G_TYPE_INVALID
             THEN ~ret.trace[i].created /\ ret.trace[i].added = NULL
             ELSE ret.trace[i].created /\ ret.trace[i].added = ret.trace[i].entry
        /\ \A i, j \in DOMAIN ret.trace :
             (i # j /\ ret.trace[i].added # NULL) => ret.trace[i].added # ret.trace[j].added

\* an entry with an unknown name was visited
C5_Witness ==
    /\ ret.op = "nm_connection_replace_settings"
    /\ \E i \in DOMAIN ret.trace :
         nm_connection_lookup_setting_type(ret.trace[i].entry) = G_TYPE_INVALID

-----------------------------------------------------------------------------
(* The permissions check of replace and of new-from-hash                   *)

PermissionsSettingInputs ==
    { NewSetting(NM_TYPE_SETTING_CONNECTION, 0, 0, "gsm"),
      NewSetting(NM_TYPE_SETTING_GSM, 1, 0, NULL),
      NewSetting(NM_TYPE_SETTING_GSM, 1, 1, NULL) }

PermissionsInputs == HashesOver([n \in {"connection", "gsm"} |->
            IF n = "connection"
            THEN { ConnectionHash(p) :
                     p \in {NULL, G_TYPE_STRV, DBUS_TYPE_G_LIST_OF_STRING, G_TYPE_UINT} }
            ELSE { [k \in {"val"} |-> 1] }])

Paths == {NULL, "/org/freedesktop/NetworkManager/Settings/1"}

NextPermissions ==
    \/ \E p \in Paths : SetPath("a", p)
    \/ \E obj \in PermissionsSettingInputs : AddSetting("a", obj)
    \/ \E new \in PermissionsInputs : ReplaceSettings("a", new)
    \/ \E new \in PermissionsInputs : NewFromHash(new)
    \/ Finalize("b")

SpecPermissions == Init /\ [][NextPermissions]_vars

\* C4: when the connection entry of the hash holds a permissions value that is
\* no list of strings, nm_connection_replace_settings returns FALSE with
\* NM_SETTING_ERROR_PROPERTY_TYPE_MISMATCH and changes neither the settings nor
\* the path, and nm_connection_new_from_hash returns NULL with the same error.
C4_PermissionsBeforeMutation ==
    [][ /\ (ret'.op = "nm_connection_replace_settings" /\ WrongPermissions(ret'.hash)) =>
             /\ ~ret'.success
             /\ ret'.error.domain = NM_SETTING_ERROR
             /\ ret'.error.code = "PROPERTY_TYPE_MISMATCH"
             /\ settings' = settings /\ heap' = heap /\ path' = path /\ conns' = conns
        /\ (ret'.op = "nm_connection_new_from_hash" /\ WrongPermissions(ret'.hash)) =>
             /\ ret'.connection = NULL
             /\ ret'.error.domain = NM_SETTING_ERROR
             /\ ret'.error.code = "PROPERTY_TYPE_MISMATCH"
             /\ settings' = settings /\ heap' = heap /\ path' = path /\ conns' = conns
      ]_vars

\* a replace was refused for its permissions on a connection that has settings
\* and a path
C4_Witness ==
    /\ ret.op = "nm_connection_replace_settings"
    /\ WrongPermissions(ret.hash)
    /\ ret.error.code = "PROPERTY_TYPE_MISMATCH"
    /\ Cardinality(Held(Table("a"))) = 2
    /\ path["a"] # NULL

-----------------------------------------------------------------------------
(* nm_connection_compare and nm_connection_diff                            *)

NM_SETTING_COMPARE_FLAG_EXACT == "NM_SETTING_COMPARE_FLAG_EXACT"
NM_SETTING_COMPARE_FLAG_IGNORE_SECRETS == "NM_SETTING_COMPARE_FLAG_IGNORE_SECRETS"
CompareFlags ==
    { NM_SETTING_COMPARE_FLAG_EXACT, NM_SETTING_COMPARE_FLAG_IGNORE_SECRETS }

NM_SETTING_DIFF_RESULT_IN_A == "NM_SETTING_DIFF_RESULT_IN_A"
NM_SETTING_DIFF_RESULT_IN_B == "NM_SETTING_DIFF_RESULT_IN_B"

\* the properties nm_setting_compare and nm_setting_diff look at under flags
ComparedProperties(setting, flags) ==
    { p \in {"val", "sec", "type"} :
        /\ p = "sec" => flags # NM_SETTING_COMPARE_FLAG_IGNORE_SECRETS
        /\ p = "type" => setting.gtype = NM_TYPE_SETTING_CONNECTION }

\* the value of a property of a setting, and the default of the property
PropertyValue(setting, p) ==
    IF p = "val" THEN <<"uint", setting.val>>
    ELSE IF p = "sec" THEN <<"uint", setting.sec>>
    ELSE <<"string", setting.ctype>>

PropertyDefault(p) == IF p = "type" THEN <<"string", NULL>> ELSE <<"uint", 0>>

\* nm_setting_compare
nm_setting_compare(a, b, flags) ==
    /\ a.gtype = b.gtype
    /\ \A p \in ComparedProperties(a, flags) : PropertyValue(a, p) = PropertyValue(b, p)

\* nm_setting_diff (a, b, flags, invert_results, &results): b may be NULL, and
\* results may hold what an earlier call put there
nm_setting_diff(a, b, flags, invert_results, results) ==
    LET a_result == IF invert_results THEN NM_SETTING_DIFF_RESULT_IN_B
                    ELSE NM_SETTING_DIFF_RESULT_IN_A
        b_result == IF invert_results THEN NM_SETTING_DIFF_RESULT_IN_A
                    ELSE NM_SETTING_DIFF_RESULT_IN_B
        different == { p \in ComparedProperties(a, flags) :
                         b.null \/ PropertyValue(a, p) # PropertyValue(b, p) }
        r(p) == IF b.null THEN {a_result}
                ELSE (IF PropertyValue(a, p) # PropertyDefault(p) THEN {a_result} ELSE {})
                     \cup (IF PropertyValue(b, p) # PropertyDefault(p) THEN {b_result} ELSE {})
        old == IF results.null THEN {} ELSE DOMAIN results.tbl
        merged == [p \in old \cup different |->
                     (IF p \in different THEN r(p) ELSE {})
                     \cup (IF p \in old THEN results.tbl[p] ELSE {})]
    IN IF old \cup different = {}
       THEN [equal |-> TRUE, results |-> NullHash]
       ELSE [equal |-> FALSE, results |-> HashOf(merged)]

\* the settings of a connection pointer that is not NULL
SettingsOf(c) == IF c = NULL THEN [t \in GTypes |-> NullSetting] ELSE Table(c)

RECURSIVE CompareLoop_skip_missing(_, _, _, _, _)
CompareLoop_skip_missing(A, B, flags, order, i) ==
    IF i > Len(order) THEN TRUE
    ELSE LET src == A[order[i]]
             cmp == nm_connection_get_setting(B, src.gtype)
         IN IF ~cmp.null /\ ~nm_setting_compare(src, cmp, flags) THEN FALSE
            ELSE CompareLoop_skip_missing(A, B, flags, order, i + 1)

\* the loop of nm_connection_compare from position i of the iteration on
RECURSIVE CompareLoop(_, _, _, _, _)
CompareLoop(A, B, flags, order, i) ==
    IF i > Len(order) THEN TRUE
    ELSE LET src == A[order[i]]
             cmp == nm_connection_get_setting(B, src.gtype)
         IN IF cmp.null \/ ~nm_setting_compare(src, cmp, flags) THEN FALSE
            ELSE CompareLoop(A, B, flags, order, i + 1)

nm_connection_compare_no_size(a, b, flags, order) ==
    IF a = NULL /\ b = NULL THEN TRUE
    ELSE IF a = NULL \/ b = NULL THEN FALSE
    ELSE CompareLoop(SettingsOf(a), SettingsOf(b), flags, order, 1)

\* nm_connection_compare; order is the order in which a's table iterates
nm_connection_compare(a, b, flags, order) ==
    IF a = NULL /\ b = NULL THEN TRUE
    ELSE IF a = NULL \/ b = NULL THEN FALSE
    ELSE IF ~CompareLoop(SettingsOf(a), SettingsOf(b), flags, order, 1) THEN FALSE
    ELSE IF Cardinality(Held(SettingsOf(a))) # Cardinality(Held(SettingsOf(b))) THEN FALSE
    ELSE TRUE

\* diff_one_connection from position i of the iteration on; diffs maps setting
\* names to the results nm_setting_diff collected for them
RECURSIVE diff_one_connection(_, _, _, _, _, _, _, _)
diff_one_connection(A, b, B, flags, invert_results, diffs, order, i) ==
    IF i > Len(order) THEN diffs
    ELSE LET a_setting == A[order[i]]
             b_setting == IF b # NULL THEN nm_connection_get_setting(B, a_setting.gtype)
                          ELSE NullSetting
             setting_name == nm_setting_get_name(a_setting)
             results == IF setting_name \in DOMAIN diffs THEN HashOf(diffs[setting_name])
                        ELSE NullHash
             d == nm_setting_diff(a_setting, b_setting, flags, invert_results, results)
             next == IF d.equal THEN diffs
                     ELSE [n \in DOMAIN diffs \cup {setting_name} |->
                             IF n = setting_name THEN d.results.tbl ELSE diffs[n]]
         IN diff_one_connection(A, b, B, flags, invert_results, next, order, i + 1)

nm_connection_diff_forward_only(a, b, flags, aorder, border) ==
    IF a = b THEN [equal |-> TRUE, out_settings |-> NullHash]
    ELSE LET diffs == diff_one_connection(SettingsOf(a), b, SettingsOf(b), flags, FALSE,
                                          [n \in {} |-> 0], aorder, 1)
         IN IF DOMAIN diffs = {} THEN [equal |-> TRUE, out_settings |-> NullHash]
            ELSE [equal |-> FALSE, out_settings |-> HashOf(diffs)]

\* nm_connection_diff: the return value and *out_settings
nm_connection_diff(a, b, flags, aorder, border) ==
    IF a = b THEN [equal |-> TRUE, out_settings |-> NullHash]
    ELSE LET empty == [n \in {} |-> 0]
             forward == diff_one_connection(SettingsOf(a), b, SettingsOf(b), flags, FALSE,
                                            empty, aorder, 1)
             diffs == IF b # NULL
                      THEN diff_one_connection(SettingsOf(b), a, SettingsOf(a), flags, TRUE,
                                               forward, border, 1)
                      ELSE forward
         IN IF DOMAIN diffs = {} THEN [equal |-> TRUE, out_settings |-> NullHash]
            ELSE [equal |-> FALSE, out_settings |-> HashOf(diffs)]

\* nm_connection_new: the second connection, "b"
New(c) ==
    /\ c \notin conns
    /\ conns' = conns \cup {c}
    /\ ret' = [op |-> "nm_connection_new", c |-> c]
    /\ UNCHANGED <<registered_settings, settings, path, heap>>

\* nm_connection_compare (a, b, flags)
Compare(a, b, flags) ==
    /\ a \in conns \cup {NULL}
    /\ b \in conns \cup {NULL}
    /\ \E order \in Orders(Held(SettingsOf(a))) :
         ret' = [op |-> "nm_connection_compare", a |-> a, b |-> b, flags |-> flags,
                 result |-> nm_connection_compare(a, b, flags, order)]
    /\ UNCHANGED <<registered_settings, conns, settings, path, heap>>

\* nm_connection_diff (a, b, flags, &out_settings)
Diff(a, b, flags) ==
    /\ a \in conns
    /\ b \in conns \cup {NULL}
    /\ \E aorder \in Orders(Held(SettingsOf(a))), border \in Orders(Held(SettingsOf(b))) :
         LET d == nm_connection_diff(a, b, flags, aorder, border)
         IN ret' = [op |-> "nm_connection_diff", a |-> a, b |-> b, flags |-> flags,
                    result |-> d.equal, out_settings |-> d.out_settings]
    /\ UNCHANGED <<registered_settings, conns, settings, path, heap>>

-----------------------------------------------------------------------------
(* Two connections compared                                                *)

CompareSettingInputs ==
    { NewSetting(NM_TYPE_SETTING_CONNECTION, 0, 0, "gsm") }
    \cup { NewSetting(NM_TYPE_SETTING_GSM, 1, s, NULL) : s \in {0, 1} }
    \cup { NewSetting(NM_TYPE_SETTING_CUSTOM, 1, 0, NULL) }

NextCompare ==
    \/ New("b")
    \/ \E c \in Connections, obj \in CompareSettingInputs : AddSetting(c, obj)
    \/ \E c \in Connections, t \in GTypes : RemoveSetting(c, t)
    \/ \E a, b \in Connections \cup {NULL}, flags \in CompareFlags : Compare(a, b, flags)
    \/ \E a, b \in Connections \cup {NULL}, flags \in CompareFlags : Diff(a, b, flags)

SpecCompare == Init /\ [][NextCompare]_vars

\* C9: nm_connection_compare returns TRUE for two NULLs, FALSE when exactly one
\* is NULL, and otherwise TRUE exactly when every setting of a has a setting of
\* its type in b that nm_setting_compare accepts under the flags and the two
\* tables hold the same number of settings.
C9_Compare ==
    ret.op = "nm_connection_compare" =>
        ret.result =
            IF ret.a = NULL /\ ret.b = NULL THEN TRUE
            ELSE IF ret.a = NULL \/ ret.b = NULL THEN FALSE
            ELSE /\ \A t \in Held(Table(ret.a)) :
                      /\ t \in Held(Table(ret.b))
                      /\ nm_setting_compare(Table(ret.a)[t], Table(ret.b)[t], ret.flags)
                 /\ Cardinality(Held(Table(ret.a))) = Cardinality(Held(Table(ret.b)))

\* every setting of a has an equal one in b and b holds one more: not equal
C9_Witness ==
    /\ ret.op = "nm_connection_compare"
    /\ ret.a = "a" /\ ret.b = "b"
    /\ ~ret.result
    /\ Held(Table("a")) # {}
    /\ Cardinality(Held(Table("b"))) = Cardinality(Held(Table("a"))) + 1
    /\ \A t \in Held(Table("a")) :
         t \in Held(Table("b")) /\ nm_setting_compare(Table("a")[t], Table("b")[t], ret.flags)

\* C10: for a connection a and b a connection or NULL, nm_connection_diff
\* returns the boolean nm_connection_compare returns on the same arguments, b
\* NULL and a without settings included.
C10_DiffEqualIsCompare ==
    ret.op = "nm_connection_diff" =>
        \A order \in Orders(Held(SettingsOf(ret.a))) :
            ret.result = nm_connection_compare(ret.a, ret.b, ret.flags, order)

\* a connection without settings was diffed against NULL
C10_Witness ==
    /\ ret.op = "nm_connection_diff"
    /\ ret.b = NULL
    /\ Held(Table(ret.a)) = {}
    /\ ret.result

-----------------------------------------------------------------------------
(* A connection serialized, and connections made from hashes               *)

FromHashSettingInputs ==
    { NewSetting(NM_TYPE_SETTING_CONNECTION, 0, 0, "gsm") }
    \cup { NewSetting(NM_TYPE_SETTING_GSM, 0, 0, NULL),
           NewSetting(NM_TYPE_SETTING_GSM, 1, 0, NULL),
           NewSetting(NM_TYPE_SETTING_GSM, 1, 1, NULL) }
    \cup { NewSetting(NM_TYPE_SETTING_CUSTOM, 1, 0, NULL) }

FromHashInputs == HashesOver([n \in {"connection", "gsm", "custom"} |->
            IF n = "connection" THEN { ConnectionHash(NULL) }
            ELSE IF n = "gsm"
            THEN { [k \in {"val"} |-> 1], [k \in {"val", "sec"} |-> 1],
                   [k \in {"val"} |-> InvalidVal] }
            ELSE { [k \in {"val"} |-> 1] }])

NextFromHash ==
    \/ \E obj \in FromHashSettingInputs : AddSetting("a", obj)
    \/ \E flags \in { NM_SETTING_HASH_FLAG_ALL, NM_SETTING_HASH_FLAG_NO_SECRETS, NM_SETTING_HASH_FLAG_ONLY_SECRETS } : ToHash("a", flags)
    \/ \E new \in FromHashInputs : NewFromHash(new)
    \/ Finalize("b")

SpecFromHash == Init /\ [][NextFromHash]_vars

\* C6: nm_connection_new_from_hash returns a connection exactly when
\* nm_connection_verify succeeds on the settings built from the entries of the
\* hash whose names are registered, an entry with an unknown name never makes
\* it fail, and when verify fails it returns NULL with the error of verify.
C6_FromHashIffVerify ==
    (ret.op = "nm_connection_new_from_hash" /\ ~WrongPermissions(ret.hash)) =>
        \E order \in Orders(Held(Built(ret.hash))) :
            LET r == nm_connection_verify(Built(ret.hash), order)
            IN /\ (ret.connection # NULL) <=> r.success
               /\ ret.error = r.error
               /\ ret.connection # NULL => Table(ret.connection) = Built(ret.hash)

\* a hash with an entry of unknown name was given
C6_Witness ==
    /\ ret.op = "nm_connection_new_from_hash"
    /\ "custom" \in DOMAIN ret.hash

\* connection a serialized with every property is the hash the last
\* nm_connection_new_from_hash was given, and a passes verify
RoundTrip ==
    /\ ret.op = "nm_connection_new_from_hash"
    /\ "a" \in conns
    /\ ~nm_connection_to_hash(Table("a"), NM_SETTING_HASH_FLAG_ALL).null
    /\ ret.hash = nm_connection_to_hash(Table("a"), NM_SETTING_HASH_FLAG_ALL).tbl
    /\ \E order \in Orders(Held(Table("a"))) : nm_connection_verify(Table("a"), order).success

\* the two ends of a round trip compare equal
RoundTripEqual ==
    /\ ret.connection # NULL
    /\ \A order \in Orders(Held(Table("a"))) :
         nm_connection_compare("a", ret.connection, NM_SETTING_COMPARE_FLAG_EXACT, order)

\* C7 as stated: for every connection on which verify succeeds,
\* nm_connection_new_from_hash of its nm_connection_to_hash with
\* NM_SETTING_HASH_FLAG_ALL returns a connection that compares equal to it
\* under NM_SETTING_COMPARE_FLAG_EXACT, whatever settings it holds.
C7_RoundTripAsStated == RoundTrip => RoundTripEqual

\* every setting of connection a is of a registered kind and serializes to a
\* hash that is not empty
AllSerialized ==
    \A t \in Held(Table("a")) :
        /\ nm_connection_lookup_setting_type(nm_setting_get_name(Table("a")[t])) = t
        /\ ~nm_setting_to_hash(Table("a")[t], NM_SETTING_HASH_FLAG_ALL).null

\* C7: for every connection on which verify succeeds and whose settings are all
\* of registered kinds and serialize to hashes that are not empty,
\* nm_connection_new_from_hash of its nm_connection_to_hash with
\* NM_SETTING_HASH_FLAG_ALL returns a connection that compares equal to it
\* under NM_SETTING_COMPARE_FLAG_EXACT.
C7_RoundTrip == (RoundTrip /\ AllSerialized) => RoundTripEqual

\* a round trip of a connection that holds a secret
C7_Witness ==
    /\ RoundTrip
    /\ AllSerialized
    /\ Table("a")[NM_TYPE_SETTING_GSM].sec = 1
    /\ ret.connection = "b"

-----------------------------------------------------------------------------
(* nm_connection_duplicate and the secrets of a connection                 *)

\* nm_setting_duplicate: a new object with the content of the setting
nm_setting_duplicate(setting) == Floating([setting EXCEPT !.live = TRUE])

\* the loop of nm_connection_duplicate from position i of the iteration on
RECURSIVE DuplicateLoop(_, _, _, _, _)
DuplicateLoop(M, connection, dup, order, i) ==
    IF i > Len(order) THEN M
    ELSE LET setting == TableOf(M, connection)[order[i]]
         IN DuplicateLoop(nm_connection_add_setting(M, dup, nm_setting_duplicate(setting)),
                          connection, dup, order, i + 1)

nm_connection_duplicate_shallow(M, connection, dup, order) ==
    [settings |-> [M.settings EXCEPT ![dup] = M.settings[connection]], heap |-> M.heap]

\* nm_connection_duplicate: the settings of the new connection dup
nm_connection_duplicate(M, connection, dup, order) ==
    DuplicateLoop(M, connection, dup, order, 1)

NM_CONNECTION_SIGNAL_SECRETS_UPDATED == "secrets-updated"
NM_CONNECTION_SIGNAL_SECRETS_CLEARED == "secrets-cleared"

\* nm_setting_update_secrets: the setting takes the secrets of the hash; a key
\* that names no secret of the setting is an error
nm_setting_update_secrets(setting, secrets) ==
    IF DOMAIN secrets \subseteq {"sec"}
    THEN [success |-> TRUE, error |-> NoError,
          setting |-> IF "sec" \in DOMAIN secrets
                      THEN [setting EXCEPT !.sec = secrets["sec"]] ELSE setting]
    ELSE [success |-> FALSE, setting |-> setting,
          error |-> GError(NM_SETTING_ERROR, "PROPERTY_NOT_SECRET",
                           CHOOSE k \in DOMAIN secrets : k # "sec")]

\* nm_setting_clear_secrets
nm_setting_clear_secrets(setting) == [setting EXCEPT !.sec = 0]

\* memory M with the setting of type t of connection c rewritten in place
Store(M, c, t, setting) ==
    [settings |-> M.settings,
     heap |-> [M.heap EXCEPT ![M.settings[c][t]][t] = setting]]

\* the loop of nm_connection_update_secrets over a hash of hashes, from
\* position i of the iteration on; delegated lists the names whose setting
\* nm_setting_update_secrets was called on
RECURSIVE UpdateLoop(_, _, _, _, _, _)
UpdateLoop(M, c, secrets, order, i, delegated) ==
    IF i > Len(order)
    THEN [mem |-> M, success |-> TRUE, error |-> NoError, delegated |-> delegated,
          visited |-> order]
    ELSE LET name == order[i]
             setting == nm_connection_get_setting_by_name(TableOf(M, c), name)
             u == nm_setting_update_secrets(setting, secrets[name])
         IN IF setting.null
            THEN [mem |-> M, success |-> FALSE, delegated |-> delegated,
                  visited |-> SubSeq(order, 1, i),
                  error |-> GError(NM_CONNECTION_ERROR, "SETTING_NOT_FOUND", name)]
            ELSE IF ~u.success
            THEN [mem |-> M, success |-> FALSE, error |-> u.error,
                  delegated |-> Append(delegated, name), visited |-> SubSeq(order, 1, i)]
            ELSE UpdateLoop(Store(M, c, setting.gtype, u.setting), c, secrets, order, i + 1,
                            Append(delegated, name))

UpdateSettings_atomic(M, c, setting_name, secrets, order) ==
    IF setting_name # NULL
    THEN LET setting == nm_connection_get_setting_by_name(TableOf(M, c), setting_name)
             tmp == IF setting_name \in DOMAIN secrets THEN secrets[setting_name]
                    ELSE secrets
             u == nm_setting_update_secrets(setting, tmp)
         IN IF setting.null
            THEN [mem |-> M, success |-> FALSE, delegated |-> << >>, visited |-> << >>,
                  error |-> GError(NM_CONNECTION_ERROR, "SETTING_NOT_FOUND", setting_name)]
            ELSE [mem |-> IF u.success THEN Store(M, c, setting.gtype, u.setting) ELSE M,
                  success |-> u.success, error |-> u.error,
                  delegated |-> <<setting_name>>, visited |-> << >>]
    ELSE LET r == UpdateLoop(M, c, secrets, order, 1, << >>)
         IN IF r.success THEN r ELSE [r EXCEPT !.mem = M]

UpdateSettings_whole_hash(M, c, setting_name, secrets, order) ==
    IF setting_name # NULL
    THEN LET setting == nm_connection_get_setting_by_name(TableOf(M, c), setting_name)
             u == nm_setting_update_secrets(setting, secrets)
         IN IF setting.null
            THEN [mem |-> M, success |-> FALSE, delegated |-> << >>, visited |-> << >>,
                  error |-> GError(NM_CONNECTION_ERROR, "SETTING_NOT_FOUND", setting_name)]
            ELSE [mem |-> IF u.success THEN Store(M, c, setting.gtype, u.setting) ELSE M,
                  success |-> u.success, error |-> u.error,
                  delegated |-> <<setting_name>>, visited |-> << >>]
    ELSE UpdateLoop(M, c, secrets, order, 1, << >>)

UpdateSettings_ignore_missing(M, c, setting_name, secrets, order) ==
    IF setting_name # NULL
    THEN LET setting == nm_connection_get_setting_by_name(TableOf(M, c), setting_name)
             tmp == IF setting_name \in DOMAIN secrets THEN secrets[setting_name]
                    ELSE secrets
             u == nm_setting_update_secrets(setting, tmp)
         IN IF setting.null
            THEN [mem |-> M, success |-> TRUE, delegated |-> << >>, visited |-> << >>,
                  error |-> NoError]
            ELSE [mem |-> IF u.success THEN Store(M, c, setting.gtype, u.setting) ELSE M,
                  success |-> u.success, error |-> u.error,
                  delegated |-> <<setting_name>>, visited |-> << >>]
    ELSE UpdateLoop(M, c, secrets, order, 1, << >>)

\* the part of nm_connection_update_secrets before the signal; setting_name
\* may be NULL
UpdateSettings(M, c, setting_name, secrets, order) ==
    IF setting_name # NULL
    THEN LET setting == nm_connection_get_setting_by_name(TableOf(M, c), setting_name)
             tmp == IF setting_name \in DOMAIN secrets THEN secrets[setting_name]
                    ELSE secrets
             u == nm_setting_update_secrets(setting, tmp)
         IN IF setting.null
            THEN [mem |-> M, success |-> FALSE, delegated |-> << >>, visited |-> << >>,
                  error |-> GError(NM_CONNECTION_ERROR, "SETTING_NOT_FOUND", setting_name)]
            ELSE [mem |-> IF u.success THEN Store(M, c, setting.gtype, u.setting) ELSE M,
                  success |-> u.success, error |-> u.error,
                  delegated |-> <<setting_name>>, visited |-> << >>]
    ELSE UpdateLoop(M, c, secrets, order, 1, << >>)

\* something an operation does that its caller or a setting observes: a call
\* of a setting's method, or a signal, with its argument
Event(event, arg) == [event |-> event, arg |-> arg]
Calls(method, names) == [i \in 1..Len(names) |-> Event(method, names[i])]

nm_connection_update_secrets_always_signal(M, c, setting_name, secrets, order) ==
    LET r == UpdateSettings(M, c, setting_name, secrets, order)
    IN [mem |-> r.mem, success |-> r.success, error |-> r.error,
        delegated |-> r.delegated, visited |-> r.visited,
        events |-> Append(Calls("nm_setting_update_secrets", r.delegated),
                          Event(NM_CONNECTION_SIGNAL_SECRETS_UPDATED, setting_name))]

\* nm_connection_update_secrets: events lists, in order, the names delegated to
\* nm_setting_update_secrets and the signals emitted
nm_connection_update_secrets(M, c, setting_name, secrets, order) ==
    LET r == UpdateSettings(M, c, setting_name, secrets, order)
    IN [mem |-> r.mem, success |-> r.success, error |-> r.error,
        delegated |-> r.delegated, visited |-> r.visited,
        events |-> IF r.success
                   THEN Append(Calls("nm_setting_update_secrets", r.delegated),
                               Event(NM_CONNECTION_SIGNAL_SECRETS_UPDATED, setting_name))
                   ELSE Calls("nm_setting_update_secrets", r.delegated)]

\* nm_connection_clear_secrets
nm_connection_clear_secrets(M, c) ==
    [settings |-> M.settings,
     heap |-> [o \in Connections |-> [t \in GTypes |->
                 IF M.settings[c][t] = o THEN nm_setting_clear_secrets(M.heap[o][t])
                 ELSE M.heap[o][t]]]]

\* nm_connection_duplicate (c); the new connection is "b"
Duplicate(c) ==
    /\ c \in conns
    /\ "b" \notin conns
    /\ \E order \in Orders(Held(Table(c))) :
         LET M == nm_connection_duplicate(Mem, c, "b", order)
         IN /\ settings' = M.settings
            /\ heap' = M.heap
    /\ path' = [path EXCEPT !["b"] = path[c]]
    /\ conns' = conns \cup {"b"}
    /\ ret' = [op |-> "nm_connection_duplicate", c |-> c, connection |-> "b"]
    /\ UNCHANGED registered_settings

\* nm_connection_update_secrets (c, setting_name, secrets, &error)
UpdateSecrets(c, setting_name, secrets) ==
    /\ c \in conns
    /\ \E order \in Orders(DOMAIN secrets) :
         LET r == nm_connection_update_secrets(Mem, c, setting_name, secrets, order)
         IN /\ settings' = r.mem.settings
            /\ heap' = r.mem.heap
            /\ ret' = [op |-> "nm_connection_update_secrets", c |-> c,
                       setting_name |-> setting_name, secrets |-> secrets,
                       success |-> r.success, error |-> r.error,
                       visited |-> r.visited, delegated |-> r.delegated,
                       events |-> r.events]
    /\ UNCHANGED <<registered_settings, conns, path>>

\* nm_setting_clear_secrets_with_flags: func decides for each secret whether
\* it is cleared; func is modelled by the answer it gives
nm_setting_clear_secrets_with_flags(setting, func) ==
    IF func THEN [setting EXCEPT !.sec = 0] ELSE setting

\* nm_connection_clear_secrets_with_flags
nm_connection_clear_secrets_with_flags(M, c, func) ==
    [settings |-> M.settings,
     heap |-> [o \in Connections |-> [t \in GTypes |->
                 IF M.settings[c][t] = o
                 THEN nm_setting_clear_secrets_with_flags(M.heap[o][t], func)
                 ELSE M.heap[o][t]]]]

ClearEvents_signal_if_held(S, order) ==
    [i \in 1..Len(order) |-> Event("nm_setting_clear_secrets", nm_setting_get_name(S[order[i]]))]
    \o (IF Len(order) > 0 THEN <<Event(NM_CONNECTION_SIGNAL_SECRETS_CLEARED, NULL)>>
        ELSE << >>)

\* what nm_connection_clear_secrets and nm_connection_clear_secrets_with_flags
\* do, in order: the settings cleared as the table iterates, then the signal
ClearEvents(S, order) ==
    Append([i \in 1..Len(order) |->
              Event("nm_setting_clear_secrets", nm_setting_get_name(S[order[i]]))],
           Event(NM_CONNECTION_SIGNAL_SECRETS_CLEARED, NULL))

\* nm_connection_clear_secrets (c)
ClearSecrets(c) ==
    /\ c \in conns
    /\ LET M == nm_connection_clear_secrets(Mem, c)
       IN /\ settings' = M.settings
          /\ heap' = M.heap
    /\ \E order \in Orders(Held(Table(c))) :
         ret' = [op |-> "nm_connection_clear_secrets", c |-> c,
                 events |-> ClearEvents(Table(c), order)]
    /\ UNCHANGED <<registered_settings, conns, path>>

\* nm_connection_clear_secrets_with_flags (c, func, user_data)
ClearSecretsWithFlags(c, func) ==
    /\ c \in conns
    /\ LET M == nm_connection_clear_secrets_with_flags(Mem, c, func)
       IN /\ settings' = M.settings
          /\ heap' = M.heap
    /\ \E order \in Orders(Held(Table(c))) :
         ret' = [op |-> "nm_connection_clear_secrets_with_flags", c |-> c, func |-> func,
                 events |-> ClearEvents(Table(c), order)]
    /\ UNCHANGED <<registered_settings, conns, path>>

-----------------------------------------------------------------------------
(* A connection and its duplicate                                          *)

DupSettingInputs ==
    { NewSetting(NM_TYPE_SETTING_CONNECTION, 0, 0, "gsm"),
      NewSetting(NM_TYPE_SETTING_GSM, 1, 0, NULL),
      NewSetting(NM_TYPE_SETTING_GSM, 1, 1, NULL) }

DupReplaceInputs ==
    HashesOver([n \in {"connection", "gsm"} |->
            IF n = "connection" THEN { ConnectionHash(NULL) }
            ELSE { [k \in {"val"} |-> 1], [k \in {"val", "sec"} |-> 1] }])
    \cup { [n \in {"custom"} |-> [k \in {"val"} |-> 1]] }

DupSecretsInputs ==
    { [k \in {"sec"} |-> 1],
      [n \in {"gsm"} |-> [k \in {"sec"} |-> 1]],
      [n \in {"gsm"} |-> [k \in {"val"} |-> 1]] }

NextDup ==
    \/ \E p \in Paths : SetPath("a", p)
    \/ Duplicate("a")
    \/ \E c \in Connections, obj \in DupSettingInputs : AddSetting(c, obj)
    \/ \E c \in Connections, t \in GTypes : RemoveSetting(c, t)
    \/ \E c \in Connections, new \in DupReplaceInputs : ReplaceSettings(c, new)
    \/ \E c \in Connections, n \in {NULL, "gsm", "ppp"}, secrets \in DupSecretsInputs :
         UpdateSecrets(c, n, secrets)
    \/ \E c \in Connections : ClearSecrets(c)
    \/ Finalize("b")

SpecDup == Init /\ [][NextDup]_vars

-----------------------------------------------------------------------------
(* The result of nm_connection_diff                                        *)

\* what one scan of the settings A against the connection b (settings B)
\* reports: for each setting of A that nm_setting_diff finds different from
\* its counterpart, the setting's name with the differing properties
ScanReports(A, b, B, flags, invert_results) ==
    LET counterpart(t) == IF b # NULL THEN nm_connection_get_setting(B, t) ELSE NullSetting
        d(t) == nm_setting_diff(A[t], counterpart(t), flags, invert_results, NullHash)
        differing == { t \in Held(A) : ~d(t).equal }
    IN [n \in { nm_setting_get_name(A[t]) : t \in differing } |->
          d(CHOOSE t \in differing : nm_setting_get_name(A[t]) = n).results.tbl]

\* the reports of two scans merged: one entry per name, the flags of a property
\* found by both scans united
MergeReports(f, r) ==
    [n \in DOMAIN f \cup DOMAIN r |->
       LET fp == IF n \in DOMAIN f THEN f[n] ELSE [p \in {} |-> {}]
           rp == IF n \in DOMAIN r THEN r[n] ELSE [p \in {} |-> {}]
       IN [p \in DOMAIN fp \cup DOMAIN rp |->
             (IF p \in DOMAIN fp THEN fp[p] ELSE {})
             \cup (IF p \in DOMAIN rp THEN rp[p] ELSE {})]]

\* C11: nm_connection_diff scans a's settings against b and, when b is not
\* NULL, b's settings against a with the results inverted; *out_settings has an
\* entry for a setting name exactly when nm_setting_diff reported a difference
\* for it in one of the scans, the entry holding the reports of both scans
\* merged; it returns TRUE exactly when there is no entry, and the diff of a
\* connection with itself is TRUE with no entry.
C11_DiffResult ==
    ret.op = "nm_connection_diff" =>
        LET forward == ScanReports(SettingsOf(ret.a), ret.b, SettingsOf(ret.b), ret.flags, FALSE)
            reverse == IF ret.b # NULL
                       THEN ScanReports(SettingsOf(ret.b), ret.a, SettingsOf(ret.a),
                                        ret.flags, TRUE)
                       ELSE [n \in {} |-> 0]
            merged == MergeReports(forward, reverse)
        IN /\ ret.out_settings.null <=> DOMAIN merged = {}
           /\ ~ret.out_settings.null => ret.out_settings.tbl = merged
           /\ ret.result <=> ret.out_settings.null
           /\ ret.a = ret.b => ret.result /\ ret.out_settings.null

\* a diff whose result has one entry that only the reverse scan found and one
\* that both scans found
C11_Witness ==
    /\ ret.op = "nm_connection_diff"
    /\ ret.a = "a" /\ ret.b = "b"
    /\ ~ret.out_settings.null
    /\ "custom" \in DOMAIN ret.out_settings.tbl
    /\ NM_TYPE_SETTING_CUSTOM \notin Held(Table("a"))
    /\ "gsm" \in DOMAIN ret.out_settings.tbl
    /\ NM_TYPE_SETTING_GSM \in Held(Table("a")) \cap Held(Table("b"))

-----------------------------------------------------------------------------
(* nm_connection_need_secrets                                              *)

\* a GPtrArray pointer: NULL, or the array
NullArray == [null |-> TRUE, array |-> << >>]

\* nm_setting_need_secrets: a setting that is configured and holds no secret
\* needs its secret; the result names the properties needed, or is NULL
nm_setting_need_secrets(setting) ==
    IF setting.val = 1 /\ setting.sec = 0
    THEN [null |-> FALSE, array |-> <<"sec">>]
    ELSE NullArray

\* setting_priority_compare
setting_priority_compare(a, b) ==
    LET prio_a == _get_setting_priority(a)
        prio_b == _get_setting_priority(b)
    IN IF prio_a < prio_b THEN -1
       ELSE IF prio_a = prio_b THEN 0
       ELSE 1

\* g_slist_insert_sorted: data goes before the first element it does not
\* compare greater than
RECURSIVE g_slist_insert_sorted(_, _)
g_slist_insert_sorted(list, data) ==
    IF list = << >> THEN <<data>>
    ELSE IF setting_priority_compare(data, Head(list)) > 0
    THEN <<Head(list)>> \o g_slist_insert_sorted(Tail(list), data)
    ELSE <<data>> \o list

\* the first loop of nm_connection_need_secrets from position i on
RECURSIVE SortedSettings(_, _, _, _)
SortedSettings(S, order, i, list) ==
    IF i > Len(order) THEN list
    ELSE SortedSettings(S, order, i + 1, g_slist_insert_sorted(list, S[order[i]]))

\* the second loop of nm_connection_need_secrets from position i of the list on
RECURSIVE NeedLoop(_, _, _)
NeedLoop(list, i, asked) ==
    IF i > Len(list) THEN [name |-> NULL, hints |-> NullArray, asked |-> asked]
    ELSE LET setting == list[i]
             secrets == nm_setting_need_secrets(setting)
         IN IF ~secrets.null
            THEN [name |-> nm_setting_get_name(setting), hints |-> secrets,
                  asked |-> Append(asked, nm_setting_get_name(setting))]
            ELSE NeedLoop(list, i + 1, Append(asked, nm_setting_get_name(setting)))

nm_connection_need_secrets_unsorted(S, order) ==
    NeedLoop([i \in 1..Len(order) |-> S[order[i]]], 1, << >>)

\* nm_connection_need_secrets; order is the order in which the table iterates
nm_connection_need_secrets(S, order) ==
    NeedLoop(SortedSettings(S, order, 1, << >>), 1, << >>)

\* nm_connection_need_secrets (c, &hints), or with hints NULL
NeedSecrets(c, with_hints) ==
    /\ c \in conns
    /\ \E order \in Orders(Held(Table(c))) :
         LET r == nm_connection_need_secrets(Table(c), order)
         IN ret' = [op |-> "nm_connection_need_secrets", c |-> c, name |-> r.name,
                    hints |-> IF with_hints THEN r.hints ELSE NullArray,
                    with_hints |-> with_hints, asked |-> r.asked]
    /\ UNCHANGED <<registered_settings, conns, settings, path, heap>>

NeedSecretsInputs ==
    { NewSetting(t, 1, s, NULL) : t \in GTypes \ {NM_TYPE_SETTING_CONNECTION}, s \in {0, 1} }
    \cup { NewSetting(NM_TYPE_SETTING_CONNECTION, v, 0, "gsm") : v \in {0, 1} }

NextNeedSecrets ==
    \/ \E obj \in NeedSecretsInputs : AddSetting("a", obj)
    \/ \E t \in GTypes : RemoveSetting("a", t)
    \/ \E with_hints \in BOOLEAN : NeedSecrets("a", with_hints)

SpecNeedSecrets == Init /\ [][NextNeedSecrets]_vars

\* the settings of a table that report a need for secrets
Needing(S) == { t \in Held(S) : ~nm_setting_need_secrets(S[t]).null }

\* C12: nm_connection_need_secrets returns the name, and the hints, of a setting
\* whose priority is the least among the held settings that need secrets, and
\* returns NULL exactly when no held setting needs secrets.
C12_NeedSecretsLeastPriority ==
    ret.op = "nm_connection_need_secrets" =>
        LET S == Table(ret.c)
        IN /\ ret.name = NULL <=> Needing(S) = {}
           /\ ret.name # NULL =>
                \E t \in Needing(S) :
                    /\ ret.name = nm_setting_get_name(S[t])
                    /\ \A u \in Needing(S) :
                         _get_setting_priority(S[t]) <= _get_setting_priority(S[u])
                    /\ ret.with_hints => ret.hints = nm_setting_need_secrets(S[t])

\* a setting of priority 1 and one of priority 3 both need secrets, and a
\* setting of priority 2 does not
C12_Witness ==
    /\ ret.op = "nm_connection_need_secrets"
    /\ ret.name = "gsm"
    /\ Needing(Table(ret.c)) = {NM_TYPE_SETTING_GSM, NM_TYPE_SETTING_PPP}
    /\ NM_TYPE_SETTING_802_1X \in Held(Table(ret.c))

-----------------------------------------------------------------------------
(* The secrets of one connection updated and cleared                       *)

SecretsSettingInputs ==
    { NewSetting(t, 1, s, NULL) :
        t \in {NM_TYPE_SETTING_GSM, NM_TYPE_SETTING_PPP}, s \in {0, 1} }
    \cup { NewSetting(NM_TYPE_SETTING_CUSTOM, 1, 0, NULL) }

SecretsInputs ==
    HashesOver([n \in {"gsm", "ppp", "custom"} |->
            IF n = "custom" THEN { [k \in {"sec"} |-> 1] }
            ELSE { [k \in {"sec"} |-> 1], [k \in {"val"} |-> 1] }])
    \cup { [k \in {"sec"} |-> 1] }

NextSecrets ==
    \/ \E obj \in SecretsSettingInputs : AddSetting("a", obj)
    \/ \E t \in GTypes : RemoveSetting("a", t)
    \/ \E n \in {NULL, "gsm", "ppp", "custom"}, secrets \in SecretsInputs : UpdateSecrets("a", n, secrets)
    \/ ClearSecrets("a")
    \/ \E func \in BOOLEAN : ClearSecretsWithFlags("a", func)

SpecSecrets == Init /\ [][NextSecrets]_vars

\* the names of a sequence of visited entries that the connection cannot
\* resolve to a setting it holds
Missing(S, name) == nm_connection_get_setting_by_name(S, name).null

\* C13: nm_connection_update_secrets fails with
\* NM_CONNECTION_ERROR_SETTING_NOT_FOUND, the message naming the setting, when a
\* name it has to resolve is not held or not registered: with a setting_name,
\* that name; with setting_name NULL, the first entry the iteration visits whose
\* setting is missing.  Neither that entry nor a later one is delegated to
\* nm_setting_update_secrets.
C13_SettingNotFound ==
    ret.op = "nm_connection_update_secrets" =>
        LET S == Table(ret.c)
            notFound(name) ==
                /\ ~ret.success
                /\ ret.error = GError(NM_CONNECTION_ERROR, "SETTING_NOT_FOUND", name)
        IN /\ (ret.setting_name # NULL /\ Missing(S, ret.setting_name)) =>
                notFound(ret.setting_name) /\ ret.delegated = << >>
           /\ ret.setting_name = NULL =>
                \A i \in DOMAIN ret.visited :
                    (Missing(S, ret.visited[i])
                       /\ \A j \in 1..(i - 1) : ~Missing(S, ret.visited[j])) =>
                        /\ notFound(ret.visited[i])
                        /\ i = Len(ret.visited)
                        /\ ret.delegated = SubSeq(ret.visited, 1, i - 1)
           /\ ret.error.code = "SETTING_NOT_FOUND" =>
                \/ ret.setting_name # NULL /\ Missing(S, ret.setting_name)
                \/ ret.setting_name = NULL /\ \E i \in DOMAIN ret.visited :
                                                 Missing(S, ret.visited[i])

\* a bulk update met a missing setting after it had updated another
C13_Witness ==
    /\ ret.op = "nm_connection_update_secrets"
    /\ ret.setting_name = NULL
    /\ ret.error.code = "SETTING_NOT_FOUND"
    /\ Len(ret.delegated) = 1
    /\ Cardinality(DOMAIN ret.secrets) = 3

\* C14: nm_connection_update_secrets emits secrets-updated exactly once when it
\* succeeds, after the settings were updated, with the setting name it was
\* given, NULL when it was given none, an empty hash included; when it fails,
\* for a missing setting or for a setting that refuses its secrets, it emits
\* nothing.
C14_SecretsUpdatedSignal ==
    ret.op = "nm_connection_update_secrets" =>
        LET signals == { i \in DOMAIN ret.events :
                           ret.events[i].event # "nm_setting_update_secrets" }
        IN /\ ret.success =>
                /\ signals = {Len(ret.events)}
                /\ ret.events[Len(ret.events)]
                     = Event(NM_CONNECTION_SIGNAL_SECRETS_UPDATED, ret.setting_name)
                /\ Len(ret.events) = Len(ret.delegated) + 1
           /\ ~ret.success => signals = {}
           /\ \A i \in DOMAIN ret.delegated :
                ret.events[i] = Event("nm_setting_update_secrets", ret.delegated[i])
           /\ (ret.setting_name = NULL /\ DOMAIN ret.secrets = {}) => ret.success

\* a bulk update with an empty hash, which succeeds
C14_Witness ==
    /\ ret.op = "nm_connection_update_secrets"
    /\ ret.setting_name = NULL
    /\ DOMAIN ret.secrets = {}
    /\ ret.events = <<Event(NM_CONNECTION_SIGNAL_SECRETS_UPDATED, NULL)>>

\* C15: nm_connection_clear_secrets and nm_connection_clear_secrets_with_flags
\* call the clear method of every setting the connection holds exactly once,
\* then emit secrets-cleared exactly once, also for a connection with no
\* settings or with no secrets; they add no setting and remove none.
C15_ClearSecrets ==
    [][ \A c \in Connections :
          (ret'.op \in { "nm_connection_clear_secrets", "nm_connection_clear_secrets_with_flags" } /\ ret'.c = c) =>
              /\ Len(ret'.events) = Cardinality(Held(Table(c))) + 1
              /\ ret'.events[Len(ret'.events)] = Event(NM_CONNECTION_SIGNAL_SECRETS_CLEARED, NULL)
              /\ { ret'.events[i] : i \in 1..(Len(ret'.events) - 1) }
                   = { Event("nm_setting_clear_secrets", nm_setting_get_name(Table(c)[t])) :
                         t \in Held(Table(c)) }
              /\ settings' = settings
              /\ Held(Table(c))' = Held(Table(c))
              /\ \A t \in Held(Table(c)) :
                   Table(c)'[t] = [Table(c)[t] EXCEPT !.sec = Table(c)'[t].sec]
      ]_vars

\* the secrets of a connection without settings were cleared
C15_Witness ==
    /\ ret.op \in { "nm_connection_clear_secrets", "nm_connection_clear_secrets_with_flags" }
    /\ Held(Table(ret.c)) = {}
    /\ ret.events = <<Event(NM_CONNECTION_SIGNAL_SECRETS_CLEARED, NULL)>>

-----------------------------------------------------------------------------
(* The result of nm_connection_to_hash                                     *)

\* the settings of a table whose nm_setting_to_hash under flags is not NULL
Serialized(S, flags) == { t \in Held(S) : ~nm_setting_to_hash(S[t], flags).null }

\* C16: nm_connection_to_hash has an entry, under the setting's name, for
\* exactly the settings whose nm_setting_to_hash under the flags is not NULL,
\* the entry being that hash; it returns NULL, never an empty table, when there
\* is no such setting; and it leaves the connection as it was.
C16_ToHash ==
    [][ \A c \in Connections :
          (ret'.op = "nm_connection_to_hash" /\ ret'.c = c) =>
              LET S == Table(c)
                  kept == Serialized(S, ret'.flags)
              IN /\ ret'.result.null <=> kept = {}
                 /\ ~ret'.result.null =>
                      /\ DOMAIN ret'.result.tbl = { nm_setting_get_name(S[t]) : t \in kept }
                      /\ \A t \in kept :
                           ret'.result.tbl[nm_setting_get_name(S[t])]
                             = nm_setting_to_hash(S[t], ret'.flags).tbl
                 /\ UNCHANGED <<settings, heap, path, conns>>
      ]_vars

\* a connection with settings, none of which holds a secret, serialized with
\* NM_SETTING_HASH_FLAG_ONLY_SECRETS
C16_Witness ==
    /\ ret.op = "nm_connection_to_hash"
    /\ ret.flags = NM_SETTING_HASH_FLAG_ONLY_SECRETS
    /\ Cardinality(Held(Table(ret.c))) = 3
    /\ ret.result.null

-----------------------------------------------------------------------------
(* The container: one setting per GType                                    *)

\* C17: a connection holds at most one setting per GType.  After
\* nm_connection_add_setting, nm_connection_get_setting of the setting's type
\* returns the new setting, whatever was held for the type before, and the
\* settings of other types are as they were; after nm_connection_remove_setting
\* it returns NULL, and nothing changes when no setting of the type was held; a
\* new connection holds no settings.
C17_OnePerType ==
    /\ [](ret.op = "nm_connection_new" => Held(Table(ret.c)) = {})
    /\ [][ \A c \in Connections, type \in GTypes :
             /\ (ret'.op = "nm_connection_add_setting" /\ ret'.c = c
                   /\ ret'.setting.gtype = type) =>
                  /\ nm_connection_get_setting(Table(c), type)' = ret'.setting
                  /\ \A t \in GTypes \ {type} : Table(c)'[t] = Table(c)[t]
                  /\ Held(Table(c))' = Held(Table(c)) \cup {type}
             /\ (ret'.op = "nm_connection_remove_setting" /\ ret'.c = c
                   /\ ret'.setting_type = type) =>
                  /\ nm_connection_get_setting(Table(c), type)'.null
                  /\ \A t \in GTypes \ {type} : Table(c)'[t] = Table(c)[t]
                  /\ Table(c)[type].null => settings' = settings /\ heap' = heap
         ]_vars

\* a setting was removed from a connection that holds others
C17_Witness ==
    /\ ret.op = "nm_connection_remove_setting"
    /\ ret.c = "b"
    /\ Table(ret.c)[ret.setting_type].null
    /\ Cardinality(Held(Table(ret.c))) = 2

-----------------------------------------------------------------------------
(* Registration of setting types *)

\* a call of _nm_register_setting by a setting class or by a plugin
Register(name, type, priority, error_quark) ==
    /\ registered_settings' =
         _nm_register_setting(registered_settings, name, type, priority, error_quark)
    /\ ret' = [op |-> "_nm_register_setting", name |-> name, type |-> type,
               priority |-> priority, error_quark |-> error_quark,
               outcome |-> _nm_register_setting_outcome(registered_settings, name, type,
                                                        priority, error_quark)]
    /\ UNCHANGED <<conns, settings, path, heap>>

\* a failed g_assert ends the program
Running ==
    ret.op \in { "_nm_register_setting", "nm_connection_is_type",
                 "nm_connection_get_virtual_iface_name" } => ret.outcome # G_ASSERT

\* each name is registered for its own type, or for a type that another name
\* holds when the name is one the classes registered at startup
RegisterTypes(name) ==
    CASE name = NULL -> {NM_TYPE_SETTING_CUSTOM}
      [] name = "connection" -> {NM_TYPE_SETTING_CONNECTION, NM_TYPE_SETTING_CUSTOM}
      [] name = "gsm" -> {NM_TYPE_SETTING_GSM, NM_TYPE_SETTING_CUSTOM}
      [] name = "custom" -> {NM_TYPE_SETTING_CUSTOM, G_TYPE_INVALID, G_TYPE_NONE}

RegistryInputs ==
    { NewSetting(NM_TYPE_SETTING_CONNECTION, 1, 0, ct) :
        ct \in {"pppoe", "ppp", "connection", "custom"} }
    \cup { NewSetting(t, 1, 0, NULL) :
             t \in {NM_TYPE_SETTING_PPPOE, NM_TYPE_SETTING_PPP, NM_TYPE_SETTING_CUSTOM} }

NextRegistry ==
    \/ \E name \in {NULL, "connection", "gsm", "custom"}, priority \in 0..(MaxPriority + 1),
          error_quark \in {"", "nm-setting-custom-error-quark"} :
         \E type \in RegisterTypes(name) :
            Running /\ Register(name, type, priority, error_quark)
    \/ \E obj \in RegistryInputs : Running /\ AddSetting("a", obj)
    \/ \E t \in GTypes : Running /\ RemoveSetting("a", t)
    \/ Running /\ Verify("a")

SpecRegistry == Init /\ [][NextRegistry]_vars

\* C18: registration is idempotent per name: a call of _nm_register_setting with
\* a name the registry holds leaves the registry as it was, whatever type,
\* priority and error quark it passes, and no step removes or changes an entry.
C18_RegisterIdempotent ==
    [][ /\ \A n \in DOMAIN registered_settings :
              /\ n \in DOMAIN registered_settings'
              /\ registered_settings'[n] = registered_settings[n]
        /\ (ret'.op = "_nm_register_setting" /\ ret'.name \in DOMAIN registered_settings) =>
              registered_settings' = registered_settings ]_vars

\* "custom" was registered, and a later call that passes every check on its
\* arguments named it again with another priority
C18_Witness ==
    /\ ret.op = "_nm_register_setting"
    /\ ret.name = "custom"
    /\ ret.type = NM_TYPE_SETTING_CUSTOM
    /\ ret.priority \in 1..MaxPriority
    /\ ret.error_quark # ""
    /\ "custom" \in DOMAIN registered_settings
    /\ registered_settings["custom"].priority # ret.priority
    /\ ret.outcome = RETURNS

C20_BaseType ==
    ret.op = "nm_connection_verify" =>
        LET S == Table(ret.c)
            s_con == S[NM_TYPE_SETTING_CONNECTION]
        IN /\ \A t \in Held(S) :
                _is_setting_base_type(S[t]) <=>
                    \/ \E n \in DOMAIN registered_settings :
                          /\ registered_settings[n].type = t
                          /\ registered_settings[n].priority = 1
                    \/ t = NM_TYPE_SETTING_PPPOE
           /\ ( /\ NM_TYPE_SETTING_CONNECTION \in Held(S)
                /\ \A t \in Held(S) : nm_setting_verify(S[t], Held(S))
                /\ s_con.ctype \in DOMAIN registered_settings
                /\ registered_settings[s_con.ctype].type \in Held(S) ) =>
                 /\ ret.success <=>
                       \/ registered_settings[s_con.ctype].priority = 1
                       \/ registered_settings[s_con.ctype].type = NM_TYPE_SETTING_PPPOE
                 /\ ~ret.success =>
                       /\ ret.error.domain = NM_CONNECTION_ERROR
                       /\ ret.error.code = "CONNECTION_TYPE_INVALID"

\* verify failed on a connection of type "ppp" that holds the ppp and the pppoe
\* settings
C20_Witness ==
    /\ ret.op = "nm_connection_verify"
    /\ ~ret.success
    /\ Table(ret.c)[NM_TYPE_SETTING_CONNECTION].ctype = "ppp"
    /\ {NM_TYPE_SETTING_PPP, NM_TYPE_SETTING_PPPOE} \subseteq Held(Table(ret.c))

-----------------------------------------------------------------------------
(* Updating the secrets of one named setting *)

\* C23: with a setting_name whose setting is held, nm_connection_update_secrets
\* gives that setting's nm_setting_update_secrets the hash stored in secrets
\* under setting_name when there is one and secrets itself otherwise: the
\* result and the setting afterwards are those of that one call, and every
\* other setting is left as it was, whatever secrets holds under its name.
C23_NamedUpdate ==
    [][ \A c \in Connections, name \in {"gsm", "ppp"} :
          ( /\ ret'.op = "nm_connection_update_secrets"
            /\ ret'.c = c
            /\ ret'.setting_name = name
            /\ ~Missing(Table(c), name) ) =>
              LET setting == nm_connection_get_setting_by_name(Table(c), name)
                  tmp == IF name \in DOMAIN ret'.secrets THEN ret'.secrets[name]
                         ELSE ret'.secrets
                  u == nm_setting_update_secrets(setting, tmp)
              IN /\ ret'.success = u.success
                 /\ ret'.error = u.error
                 /\ ret'.delegated = <<name>>
                 /\ \A t \in GTypes :
                       Table(c)'[t] = IF t = setting.gtype THEN u.setting ELSE Table(c)[t]
      ]_vars

\* secrets for "gsm" were taken from a hash that also holds secrets for "ppp",
\* and the ppp setting that is held kept none
C23_Witness ==
    /\ ret.op = "nm_connection_update_secrets"
    /\ ret.setting_name = "gsm"
    /\ ret.success
    /\ {"gsm", "ppp"} \subseteq DOMAIN ret.secrets
    /\ "sec" \in DOMAIN ret.secrets["ppp"]
    /\ Table(ret.c)[NM_TYPE_SETTING_GSM].sec = 1
    /\ ~Table(ret.c)[NM_TYPE_SETTING_PPP].null
    /\ Table(ret.c)[NM_TYPE_SETTING_PPP].sec = 0

-----------------------------------------------------------------------------
(* Settings of a type that was never registered *)

\* C24: _get_setting_priority is the registered priority of a setting whose
\* type is registered, 0 for the connection setting, and G_MAXUINT32 for a
\* setting whose type is not registered; so nm_connection_need_secrets asks
\* such a setting only after every held setting of a registered type, and
\* returns its name only when no setting of a registered type needs secrets.
C24_UnregisteredLast ==
    ret.op = "nm_connection_need_secrets" =>
        LET S == Table(ret.c)
            Registered == { t \in Held(S) :
                              \E n \in DOMAIN registered_settings :
                                 registered_settings[n].type = t }
            Unknown == Held(S) \ Registered
        IN /\ \A n \in DOMAIN registered_settings :
                 registered_settings[n].type \in Held(S) =>
                    _get_setting_priority(S[registered_settings[n].type])
                       = registered_settings[n].priority
           /\ NM_TYPE_SETTING_CONNECTION \in Held(S) =>
                 _get_setting_priority(S[NM_TYPE_SETTING_CONNECTION]) = 0
           /\ \A t \in Unknown :
                 /\ _get_setting_priority(S[t]) = G_MAXUINT32
                 /\ \A r \in Registered :
                       _get_setting_priority(S[r]) < _get_setting_priority(S[t])
                 /\ \A i \in DOMAIN ret.asked :
                       ret.asked[i] = nm_setting_get_name(S[t]) =>
                          \A r \in Registered :
                             \E j \in 1..(i - 1) : ret.asked[j] = nm_setting_get_name(S[r])
                 /\ ret.name = nm_setting_get_name(S[t]) => Needing(S) \subseteq Unknown

\* the setting of the unregistered type needs secrets, and it was asked third,
\* after two settings of registered types that need none
C24_Witness ==
    /\ ret.op = "nm_connection_need_secrets"
    /\ ret.name = "custom"
    /\ Len(ret.asked) = 3
    /\ ret.asked[3] = "custom"
    /\ NM_TYPE_SETTING_CONNECTION \in Held(Table(ret.c))

-----------------------------------------------------------------------------
(* Connections that compare equal *)

\* C25: when nm_connection_compare returns TRUE for two connections, neither of
\* them NULL, the two hold settings of exactly the same types.
C25_EqualHoldSameTypes ==
    ( /\ ret.op = "nm_connection_compare"
      /\ ret.a # NULL
      /\ ret.b # NULL
      /\ ret.result ) =>
        Held(Table(ret.a)) = Held(Table(ret.b))

\* two different connections of two settings each compared equal
C25_Witness ==
    /\ ret.op = "nm_connection_compare"
    /\ ret.a = "a"
    /\ ret.b = "b"
    /\ ret.result
    /\ Cardinality(Held(Table(ret.a))) = 2

-----------------------------------------------------------------------------
(* A bulk update of secrets that fails *)

\* C26: when nm_connection_update_secrets with setting_name NULL fails at an
\* entry of secrets, the settings of the entries visited before it hold the
\* secrets they were given, every other setting is as it was, and no
\* secrets-updated signal is emitted.
C26_BulkUpdateNotAtomic ==
    [][ \A c \in Connections :
          ( /\ ret'.op = "nm_connection_update_secrets"
            /\ ret'.c = c
            /\ ret'.setting_name = NULL
            /\ ~ret'.success ) =>
              LET visited == ret'.visited
                  before == 1..(Len(visited) - 1)
                  typeOf(i) == nm_connection_lookup_setting_type(visited[i])
              IN /\ Len(visited) >= 1
                 /\ \A i, j \in DOMAIN visited : visited[i] = visited[j] => i = j
                 /\ \A i \in DOMAIN visited : visited[i] \in DOMAIN ret'.secrets
                 /\ ret'.delegated \in { SubSeq(visited, 1, Len(visited) - 1), visited }
                 /\ \A t \in GTypes :
                       Table(c)'[t] =
                          IF \E i \in before : typeOf(i) = t
                          THEN LET i == CHOOSE i \in before : typeOf(i) = t
                               IN nm_setting_update_secrets(
                                     Table(c)[t], ret'.secrets[visited[i]]).setting
                          ELSE Table(c)[t]
                 /\ \A i \in DOMAIN ret'.events :
                       ret'.events[i].event # NM_CONNECTION_SIGNAL_SECRETS_UPDATED
      ]_vars

\* a bulk update of three entries failed at the third, after the secrets of
\* the first two had been given to the gsm and the ppp settings
C26_Witness ==
    /\ ret.op = "nm_connection_update_secrets"
    /\ ret.setting_name = NULL
    /\ ~ret.success
    /\ Len(ret.visited) = 3
    /\ Len(ret.delegated) = 2
    /\ Table(ret.c)[NM_TYPE_SETTING_GSM].sec = 1
    /\ Table(ret.c)[NM_TYPE_SETTING_PPP].sec = 1

-----------------------------------------------------------------------------
(* The connection type and its setting *)

\* _get_type_setting: the setting the connection type names, or a failed
\* g_assert
_get_type_setting(S) ==
    LET s_con == nm_connection_get_setting_connection(S)
        type == nm_setting_connection_get_connection_type(s_con)
        base == nm_connection_get_setting_by_name(S, type)
    IN IF s_con.null THEN [outcome |-> G_ASSERT, base |-> NullSetting]
       ELSE IF type = NULL THEN [outcome |-> G_ASSERT, base |-> NullSetting]
       ELSE IF base.null THEN [outcome |-> G_ASSERT, base |-> NullSetting]
       ELSE [outcome |-> RETURNS, base |-> base]

\* nm_connection_is_type
nm_connection_is_type(S, type) ==
    LET s_con == nm_connection_get_setting_connection(S)
        type2 == nm_setting_connection_get_connection_type(s_con)
    IN IF type = NULL THEN [outcome |-> G_RETURN_IF_FAIL, result |-> FALSE]
       ELSE IF s_con.null THEN [outcome |-> G_ASSERT, result |-> FALSE]
       ELSE IF type2 = NULL THEN [outcome |-> G_ASSERT, result |-> FALSE]
       ELSE [outcome |-> RETURNS, result |-> type2 = type]

\* nm_setting_get_virtual_iface_name: none of the settings here names a
\* virtual interface
nm_setting_get_virtual_iface_name(setting) == NULL

\* nm_connection_get_virtual_iface_name
nm_connection_get_virtual_iface_name(S) ==
    LET t == _get_type_setting(S)
    IN IF t.outcome = G_ASSERT THEN [outcome |-> G_ASSERT, result |-> NULL]
       ELSE [outcome |-> RETURNS, result |-> nm_setting_get_virtual_iface_name(t.base)]

\* nm_connection_is_type (c, type); a setting the table points at after it was
\* freed is read as whatever its memory holds by now
IsType(c, type) ==
    /\ c \in conns
    /\ \E garbage \in GarbageIn(Mem) :
         LET M == Scribble(Mem, garbage)
             r == nm_connection_is_type(TableOf(M, c), type)
         IN /\ heap' = M.heap
            /\ ret' = [op |-> "nm_connection_is_type", c |-> c, type |-> type,
                       outcome |-> r.outcome, result |-> r.result]
    /\ UNCHANGED <<registered_settings, conns, settings, path>>

\* nm_connection_get_virtual_iface_name (c)
GetVirtualIfaceName(c) ==
    /\ c \in conns
    /\ \E garbage \in GarbageIn(Mem) :
         LET M == Scribble(Mem, garbage)
             r == nm_connection_get_virtual_iface_name(TableOf(M, c))
         IN /\ heap' = M.heap
            /\ ret' = [op |-> "nm_connection_get_virtual_iface_name", c |-> c,
                       outcome |-> r.outcome, result |-> r.result]
    /\ UNCHANGED <<registered_settings, conns, settings, path>>

NextType ==
    \/ \E obj \in ReplaceSettingInputs : Running /\ AddSetting("a", obj)
    \/ \E t \in GTypes : Running /\ RemoveSetting("a", t)
    \/ \E new \in ReplaceInputs : Running /\ ReplaceSettings("a", new)
    \/ \E type \in {NULL, "gsm", "ppp"} : Running /\ IsType("a", type)
    \/ Running /\ GetVirtualIfaceName("a")

SpecType == Init /\ [][NextType]_vars

\* C27: when nm_connection_is_type or nm_connection_get_virtual_iface_name is
\* called on a connection on which nm_connection_verify succeeds as the
\* connection is at the call, no g_assert of the call fails.
C27_VerifiedNeverAsserts ==
    [][ \A c \in Connections :
          ( /\ ret'.op \in {"nm_connection_is_type", "nm_connection_get_virtual_iface_name"}
            /\ ret'.c = c
            /\ \E order \in Orders(Held(Table(c))) :
                  nm_connection_verify(Table(c), order).success ) =>
              ret'.outcome # G_ASSERT ]_vars

\* a g_assert failed in a call on a connection whose table points at a
\* connection setting that was freed
C27_Witness ==
    /\ ret.op \in {"nm_connection_is_type", "nm_connection_get_virtual_iface_name"}
    /\ ret.outcome = G_ASSERT
    /\ <<ret.c, NM_TYPE_SETTING_CONNECTION>> \in Dangling(Mem)

====
